---------------------------- MODULE Spec2Model ----------------------------
(***************************************************************************)
(* A model of the snapshot-query engine (src/snapshot_query/query.py):     *)
(* the accessibility tree held by a SnapshotQuery session, its query       *)
(* operations, the selector parser and matcher, and the BM25 index.        *)
(*                                                                         *)
(* A Python string is a sequence of one-character strings.  An element is  *)
(* its position (1..Len(data)) in the document's pre-order; 0 stands for   *)
(* "no element" (None) and for the virtual root whose children are         *)
(* self.data.                                                              *)
(***************************************************************************)
EXTENDS Integers, Sequences, FiniteSets, TLC

VARIABLES data, bm25_index, elements_with_names, call, ret, threads

vars == <<data, bm25_index, elements_with_names, call, ret, threads>>

(***************************************************************************)
(* Bounds of the model.                                                    *)
(***************************************************************************)
MaxNodes == 3

MaxFragments == 3

(***************************************************************************)
(* Characters and the character classes the regular expressions use.       *)
(***************************************************************************)
LowerLetters == {"a", "b", "c", "e", "f", "l", "m", "n", "o", "r", "s", "t", "x", "y"}

UpperLetters == {"A", "X", "Y"}

Digits == {"1"}

CJK == {"U4E2D", "U6587"}

WhiteSpace == {" "}

AlphaChars == LowerLetters \cup UpperLetters

AlnumChars == AlphaChars \cup Digits

WordChars == AlnumChars \cup {"_"} \cup CJK

IsSpace(c) == c \in WhiteSpace

IsAlpha(c) == c \in AlphaChars

IsAlnum(c) == c \in AlnumChars

IsCJK(c) == c \in CJK

IsWord(c) == c \in WordChars

IsQuote(c) == c \in {"'", "\""}

(***************************************************************************)
(* Python string operations.                                               *)
(***************************************************************************)
StartsWith(s, p) == Len(p) <= Len(s) /\ SubSeq(s, 1, Len(p)) = p

EndsWith(s, p) == Len(p) <= Len(s) /\ SubSeq(s, Len(s) - Len(p) + 1, Len(s)) = p

\* A containment test that misses the string itself.
ContainsProperly(s, p) ==
    Len(p) < Len(s) /\ \E i \in 1..(Len(s) - Len(p) + 1) : SubSeq(s, i, i + Len(p) - 1) = p

Contains(s, p) == \E i \in 1..(Len(s) - Len(p) + 1) : SubSeq(s, i, i + Len(p) - 1) = p

RECURSIVE LStrip(_)
LStrip(s) == IF s # <<>> /\ IsSpace(Head(s)) THEN LStrip(Tail(s)) ELSE s

RECURSIVE RStrip(_)
RStrip(s) == IF s # <<>> /\ IsSpace(s[Len(s)]) THEN RStrip(SubSeq(s, 1, Len(s) - 1)) ELSE s

Strip(s) == RStrip(LStrip(s))

\* The length of the longest prefix of s made of characters of the set cs.
RECURSIVE Span(_, _)
Span(s, cs) == IF s # <<>> /\ Head(s) \in cs THEN 1 + Span(Tail(s), cs) ELSE 0

Drop(s, n) == SubSeq(s, n + 1, Len(s))

\* str.lower(), one character
Lower(c) ==
    CASE c = "A" -> "a" [] c = "X" -> "x" [] c = "Y" -> "y" [] OTHER -> c

LowerStr(s) == [k \in 1..Len(s) |-> Lower(s[k])]

\* The length of the longest prefix of s without whitespace.
RECURSIVE SpanNonSpace(_)
SpanNonSpace(s) == IF s # <<>> /\ ~IsSpace(Head(s)) THEN 1 + SpanNonSpace(Tail(s)) ELSE 0

\* str.split(): the maximal runs of characters that are not whitespace
RECURSIVE Split(_)
Split(s) ==
    LET t == LStrip(s)
        n == SpanNonSpace(t)
    IN  IF t = <<>> THEN <<>> ELSE <<SubSeq(t, 1, n)>> \o Split(Drop(t, n))

(***************************************************************************)
(* The tree.  data[i] is the i-th element in document pre-order, parent    *)
(* its parent's position (0 for a top-level element of self.data).         *)
(***************************************************************************)
RECURSIVE AncOrSelf(_, _)
AncOrSelf(p, j) == IF j = 0 THEN {0} ELSE {j} \cup AncOrSelf(p, p[j])

\* p numbers a forest in pre-order: each element hangs under the previous
\* element or one of its ancestors (or is top-level).
IsPreorder(p, n) == \A i \in 1..n : p[i] \in AncOrSelf(p, i - 1)

Forests(n) == {p \in [1..n -> 0..n] : IsPreorder(p, n)}

Elements == 1..Len(data)

\* item.children (None and [] are both "no children"), as positions.
Children(i) == SelectSeq([j \in 1..Len(data) |-> j], LAMBDA j : data[j].parent = i)

\* item.name or ''
NameOrEmpty(i) == IF data[i].named THEN data[i].name ELSE <<>>

\* truthiness of item.name
HasName(i) == data[i].named /\ data[i].name # <<>>

RECURSIVE Depth(_)
Depth(i) == IF data[i].parent = 0 THEN 0 ELSE 1 + Depth(data[i].parent)

RECURSIVE Descendants(_)
Descendants(i) ==
    LET kids == {j \in Elements : data[j].parent = i}
    IN  kids \cup UNION {Descendants(j) : j \in kids}

Node(role, ref, named, name) == [role |-> role, ref |-> ref, named |-> named, name |-> name]

\* The trees of at most max elements whose (role, ref, name) come from labels.
TreeOf(p, lab) ==
    [i \in DOMAIN p |-> [role |-> lab[i].role, ref |-> lab[i].ref, named |-> lab[i].named,
                         name |-> lab[i].name, parent |-> p[i]]]

Trees(labels, max) ==
    UNION {{TreeOf(p, lab) : p \in Forests(n), lab \in [1..n -> labels]} : n \in 0..max}

(***************************************************************************)
(* The session after construction: the tree is loaded, the BM25 index is   *)
(* not built, no call has been made.                                       *)
(***************************************************************************)
\* The call last made: the operation, its string argument (a name, role, ref,
\* selector, pattern or query), the field argument of find_by_regex, and
\* its case_sensitive flag, the exact and use_bm25 flags of find_by_name, and
\* top_k (has_top_k is FALSE for None); doc_idx is the document BM25Index.score
\* is asked about, counted from 1.
NoCall ==
    [op |-> "none", s |-> <<>>, field |-> <<>>, case_sensitive |-> FALSE,
     exact |-> FALSE, use_bm25 |-> FALSE, has_top_k |-> FALSE, top_k |-> 0,
     doc_idx |-> 0]

Call1(op, s) == [NoCall EXCEPT !.op = op, !.s = s]

\* What a call gave back: the exception raised ("none" when it returned), the
\* list returned (val) or the single element returned (elem, 0 for None); for
\* a dict, the function from its keys to their values (dict) and, where the
\* model follows it, the order in which the keys were inserted (keys).
NoRet ==
    [raised |-> "none", val |-> <<>>, elem |-> 0, strs |-> <<>>, dict |-> <<>>, num |-> 0,
     keys |-> <<>>]

Returned(v) == [NoRet EXCEPT !.val = v]

ReturnedElement(e) == [NoRet EXCEPT !.elem = e]

\* A list of strings returned (extract_all_refs).
ReturnedStrings(v) == [NoRet EXCEPT !.strs = v]

\* A float returned, in units of 1/Scale (BM25Index.score).
ReturnedNumber(x) == [NoRet EXCEPT !.num = x]

\* A dict returned, as the function from its keys to their values.
ReturnedDict(d) == [NoRet EXCEPT !.dict = d]

\* A dict returned, with the order of its keys: d.keys is the sequence of
\* the keys in insertion order, d.vals the function from keys to values.
ReturnedOrderedDict(d) == [NoRet EXCEPT !.dict = d.vals, !.keys = d.keys]

Raised(e) == [NoRet EXCEPT !.raised = e]

\* self._bm25_index is None: no BM25Index object yet.  The fields are those
\* of a BM25Index; avg_doc_len is the exact ratio num/den, idf is in units of
\* 1/Scale.
NoIndex ==
    [exists |-> FALSE, documents |-> <<>>, doc_freqs |-> <<>>, idf |-> <<>>,
     avg_doc_len |-> [num |-> 0, den |-> 1], built |-> FALSE]

Session(trees) ==
    /\ data \in trees
    /\ bm25_index = NoIndex
    /\ elements_with_names = <<>>
    /\ threads = <<>>
    /\ call = NoCall
    /\ ret = NoRet

NAME == <<"n", "a", "m", "e">>

ROLE == <<"r", "o", "l", "e">>

REF == <<"r", "e", "f">>

(***************************************************************************)
(* find_by_role, find_by_ref.                                              *)
(***************************************************************************)
RECURSIVE RoleSearch(_, _)
RoleSearch(items, role) ==
    IF items = <<>> THEN <<>>
    ELSE LET item == Head(items)
         IN  (IF data[item].role = role THEN <<item>> ELSE <<>>)
             \o RoleSearch(Children(item), role)
             \o RoleSearch(Tail(items), role)

find_by_role(role) == RoleSearch(Children(0), role)

RECURSIVE RefSearchFirstSibling(_, _)
RefSearchFirstSibling(items, ref) ==
    IF items = <<>> THEN 0
    ELSE LET item == Head(items)
         IN  IF data[item].ref = ref THEN item
             ELSE LET later == RefSearchFirstSibling(Tail(items), ref)
                  IN  IF later # 0 THEN later
                      ELSE RefSearchFirstSibling(Children(item), ref)

RECURSIVE RefSearch(_, _)
RefSearch(items, ref) ==
    IF items = <<>> THEN 0
    ELSE LET item == Head(items)
         IN  IF data[item].ref = ref THEN item
             ELSE LET result == RefSearch(Children(item), ref)
                  IN  IF result # 0 THEN result
                      ELSE RefSearch(Tail(items), ref)

find_by_ref(ref) == RefSearch(Children(0), ref)

(***************************************************************************)
(* _parse_selector: the selector string is cut into tokens by re.findall   *)
(* (runs without whitespace or '>', runs of whitespace, and '>' with the   *)
(* whitespace after it), and each token that is not a combinator is parsed *)
(* into a part: a dict with the optional keys tag, id, attrs, combinator.  *)
(***************************************************************************)
\* The length of the longest prefix of s with no whitespace and no '>'.
RECURSIVE SpanFragment(_)
SpanFragment(s) ==
    IF s # <<>> /\ ~IsSpace(Head(s)) /\ Head(s) # ">" THEN 1 + SpanFragment(Tail(s)) ELSE 0

\* re.findall: the alternatives are tried in order at each position.
RECURSIVE FindAllTokens(_)
FindAllTokens(s) ==
    IF s = <<>> THEN <<>>
    ELSE LET n == IF SpanFragment(s) > 0 THEN SpanFragment(s)
                  ELSE IF IsSpace(Head(s)) THEN Span(s, WhiteSpace)
                  ELSE 1 + Span(Tail(s), WhiteSpace)
         IN  <<SubSeq(s, 1, n)>> \o FindAllTokens(Drop(s, n))

EmptyPart ==
    [hasTag |-> FALSE, tag |-> <<>>, hasId |-> FALSE, id |-> <<>>,
     hasAttrs |-> FALSE, attrs |-> <<>>, combinator |-> "none"]

\* A parser that keeps the part of a token it could not parse.
PartAlwaysKept(part) == TRUE

\* bool(part): a dict is true when it has a key.
PartNonEmpty(part) == part.hasTag \/ part.hasId \/ part.hasAttrs

\* part['attrs'][attr_name] = value on a dict kept in insertion order.
PutAttr(attrs, name, value) ==
    IF \E k \in 1..Len(attrs) : attrs[k].name = name
    THEN [k \in 1..Len(attrs) |->
             IF attrs[k].name = name THEN [name |-> name, value |-> value] ELSE attrs[k]]
    ELSE Append(attrs, [name |-> name, value |-> value])

\* The value stored for an operator: the operator is written into the value.
EncodeValue(operator, attr_value) ==
    IF operator = <<"*">> THEN <<"*">> \o attr_value \o <<"*">>
    ELSE IF operator = <<"^">> THEN <<"^">> \o attr_value
    ELSE IF operator = <<"$">> THEN attr_value \o <<"$">>
    ELSE attr_value

\* re.match(r'^(\w+)([*^$]?)=["\']?([^"\']*)["\']?$', attr_str): the groups,
\* or ok = FALSE when the string does not match.
MatchAttrRegex(attr_str) ==
    LET w      == Span(attr_str, WordChars)
        r1     == Drop(attr_str, w)
        hasOp  == Len(r1) >= 2 /\ r1[1] \in {"*", "^", "$"} /\ r1[2] = "="
        hasEq  == r1 # <<>> /\ r1[1] = "="
        r      == IF hasOp THEN Drop(r1, 2) ELSE Drop(r1, 1)
        body   == IF r # <<>> /\ IsQuote(Head(r)) THEN Tail(r) ELSE r
        v      == IF body # <<>> /\ IsQuote(body[Len(body)])
                  THEN SubSeq(body, 1, Len(body) - 1) ELSE body
    IN  [ok       |-> w >= 1 /\ (hasOp \/ hasEq) /\ \A k \in 1..Len(v) : ~IsQuote(v[k]),
         name     |-> SubSeq(attr_str, 1, w),
         operator |-> IF hasOp THEN <<r1[1]>> ELSE <<>>,
         value    |-> v]

parse_attributes(part, attr_str) ==
    LET m == MatchAttrRegex(attr_str)
    IN  IF m.ok
        THEN [part EXCEPT !.hasAttrs = TRUE,
                          !.attrs = PutAttr(part.attrs, m.name,
                                            EncodeValue(m.operator, m.value))]
        ELSE part

\* The length of the match of [a-z][a-z0-9]* (re.IGNORECASE) at the start.
IdentLen(token) ==
    IF token # <<>> /\ IsAlpha(Head(token)) THEN 1 + Span(Tail(token), AlnumChars) ELSE 0

\* re.match(r'^([a-z][a-z0-9]*)(\[.+\])$', token, re.IGNORECASE)
IsCombined(token) ==
    LET n == IdentLen(token)
    IN  n >= 1 /\ Len(token) >= n + 3 /\ token[n + 1] = "[" /\ token[Len(token)] = "]"

\* re.match(r'^[a-z][a-z0-9]*$', token, re.IGNORECASE)
IsIdent(token) == token # <<>> /\ IdentLen(token) = Len(token)

\* A parser that keeps the '#' in the id.
ParseTokenKeepHash(token) ==
    IF StartsWith(token, <<"#">>) THEN [EmptyPart EXCEPT !.hasId = TRUE, !.id = token]
    ELSE IF IsIdent(token) THEN [EmptyPart EXCEPT !.hasTag = TRUE, !.tag = token]
    ELSE EmptyPart

ParseToken(token) ==
    IF IsCombined(token)
    THEN parse_attributes([EmptyPart EXCEPT !.hasTag = TRUE,
                                            !.tag = SubSeq(token, 1, IdentLen(token))],
                          SubSeq(token, IdentLen(token) + 2, Len(token) - 1))
    ELSE IF StartsWith(token, <<"#">>)
    THEN [EmptyPart EXCEPT !.hasId = TRUE, !.id = Tail(token)]
    ELSE IF StartsWith(token, <<"[">>) /\ EndsWith(token, <<"]">>)
    THEN parse_attributes(EmptyPart, SubSeq(token, 2, Len(token) - 1))
    ELSE IF IsIdent(token)
    THEN [EmptyPart EXCEPT !.hasTag = TRUE, !.tag = token]
    ELSE EmptyPart

SetCombinator(parts, c) ==
    IF parts = <<>> THEN parts ELSE [parts EXCEPT ![Len(parts)].combinator = c]

\* The while loop over matches, from position i with the parts built so far.
RECURSIVE ParseLoop(_, _, _)
ParseLoop(matches, i, parts) ==
    IF i > Len(matches) THEN parts
    ELSE LET token == Strip(matches[i])
         IN  IF token = <<>> THEN ParseLoop(matches, i + 1, parts)
             ELSE IF token = <<">">> THEN ParseLoop(matches, i + 1, SetCombinator(parts, ">"))
             ELSE LET linked == IF i > 1 /\ Strip(matches[i - 1]) = <<>>
                                THEN SetCombinator(parts, " ") ELSE parts
                      part   == ParseToken(token)
                  IN  ParseLoop(matches, i + 1,
                                IF PartNonEmpty(part) THEN Append(linked, part) ELSE linked)

parse_selector(selector) ==
    IF Strip(selector) = <<>> THEN <<>>
    ELSE ParseLoop(FindAllTokens(Strip(selector)), 1, <<>>)

(***************************************************************************)
(* find_by_selector: match_element, _match_descendant and the traversal.   *)
(***************************************************************************)
\* The comparison chosen from the stored value's first and last characters.
AttrValueMatches(item_value, attr_value) ==
    IF StartsWith(attr_value, <<"*">>) /\ EndsWith(attr_value, <<"*">>)
    THEN Contains(item_value, SubSeq(attr_value, 2, Len(attr_value) - 1))
    ELSE IF StartsWith(attr_value, <<"^">>)
    THEN StartsWith(item_value, Tail(attr_value))
    ELSE IF EndsWith(attr_value, <<"$">>)
    THEN EndsWith(item_value, SubSeq(attr_value, 1, Len(attr_value) - 1))
    ELSE item_value = attr_value

\* One entry of sel['attrs']: an attribute other than name, role, ref is skipped.
AttrMatches(item, attr) ==
    IF attr.name = NAME THEN AttrValueMatches(NameOrEmpty(item), attr.value)
    ELSE IF attr.name = ROLE THEN AttrValueMatches(data[item].role, attr.value)
    ELSE IF attr.name = REF THEN AttrValueMatches(data[item].ref, attr.value)
    ELSE TRUE

\* The part of match_element that tests the element against selectors[0];
\* the same text is repeated in _match_descendant (lines 527-574).
MatchConstraints(item, sel) ==
    /\ sel.hasTag => data[item].role = sel.tag
    /\ sel.hasId => data[item].ref = sel.id
    /\ sel.hasAttrs => \A k \in 1..Len(sel.attrs) : AttrMatches(item, sel.attrs[k])

\* match_element as nested in _match_descendant: it follows '>' only.
RECURSIVE MatchElementInner(_, _)
MatchElementInner(item, selectors) ==
    IF selectors = <<>> THEN TRUE
    ELSE IF ~MatchConstraints(item, Head(selectors)) THEN FALSE
    ELSE IF Len(selectors) = 1 THEN TRUE
    ELSE IF Head(selectors).combinator = ">"
    THEN \E k \in 1..Len(Children(item)) :
             MatchElementInner(Children(item)[k], Tail(selectors))
    ELSE FALSE

\* A descendant match that looks at the element only, never below it.
MatchDescendantShallow(item, selectors) == MatchElementInner(item, selectors)

RECURSIVE match_descendant(_, _)
match_descendant(item, selectors) ==
    \/ MatchElementInner(item, selectors)
    \/ \E k \in 1..Len(Children(item)) : match_descendant(Children(item)[k], selectors)

\* match_element as nested in find_by_selector.
RECURSIVE match_element(_, _)
match_element(item, selectors) ==
    IF selectors = <<>> THEN TRUE
    ELSE IF ~MatchConstraints(item, Head(selectors)) THEN FALSE
    ELSE IF Len(selectors) = 1 THEN TRUE
    ELSE IF Head(selectors).combinator = " "
    THEN \E k \in 1..Len(Children(item)) :
             match_descendant(Children(item)[k], Tail(selectors))
    ELSE IF Head(selectors).combinator = ">"
    THEN \E k \in 1..Len(Children(item)) :
             match_element(Children(item)[k], Tail(selectors))
    ELSE FALSE

\* A search without the special case of a leading '>': the item that
\* matches the whole selector is the one reported.
SelectorHitsParent(item, parts) == IF match_element(item, parts) THEN <<item>> ELSE <<>>

\* What one visited item appends to results.
SelectorHits(item, parts) ==
    IF Len(parts) > 1 /\ parts[1].combinator = ">"
    THEN IF match_element(item, <<parts[1]>>)
         THEN SelectSeq(Children(item), LAMBDA child : match_element(child, Tail(parts)))
         ELSE <<>>
    ELSE IF match_element(item, parts) THEN <<item>> ELSE <<>>

\* A traversal that visits an item's later siblings before its children.
RECURSIVE SelectorSearchSiblingsFirst(_, _)
SelectorSearchSiblingsFirst(items, parts) ==
    IF items = <<>> THEN <<>>
    ELSE SelectorHits(Head(items), parts)
         \o SelectorSearchSiblingsFirst(Tail(items), parts)
         \o SelectorSearchSiblingsFirst(Children(Head(items)), parts)

RECURSIVE SelectorSearch(_, _)
SelectorSearch(items, parts) ==
    IF items = <<>> THEN <<>>
    ELSE SelectorHits(Head(items), parts)
         \o SelectorSearch(Children(Head(items)), parts)
         \o SelectorSearch(Tail(items), parts)

find_by_selector(selector) ==
    LET parts == parse_selector(selector)
    IN  IF parts = <<>> THEN <<>> ELSE SelectorSearch(Children(0), parts)

(***************************************************************************)
(* find_by_regex.  re.compile and regex.search are modelled for patterns   *)
(* made of an optional '^', literal characters and '.', and an optional    *)
(* '$'; a pattern holding '[', '(' or '*' (with nothing to close or to     *)
(* repeat in this alphabet) does not compile.                              *)
(***************************************************************************)
ReCompiles(pattern) == \A k \in 1..Len(pattern) : pattern[k] \notin {"[", "(", "*"}

\* The atoms of a compiled pattern, between its anchors.
ReAtoms(pattern) ==
    LET p1 == IF StartsWith(pattern, <<"^">>) THEN Tail(pattern) ELSE pattern
    IN  IF EndsWith(p1, <<"$">>) THEN SubSeq(p1, 1, Len(p1) - 1) ELSE p1

ReAtomMatches(atom, c, case_sensitive) ==
    \/ atom = "."
    \/ IF case_sensitive THEN atom = c ELSE Lower(atom) = Lower(c)

\* regex.search(text) for re.compile(pattern, 0 if case_sensitive else re.IGNORECASE)
ReSearch(pattern, case_sensitive, text) ==
    LET atoms == ReAtoms(pattern)
        n     == Len(atoms)
    IN  \E i \in 1..(Len(text) - n + 1) :
            /\ StartsWith(pattern, <<"^">>) => i = 1
            /\ EndsWith(pattern, <<"$">>) => i + n - 1 = Len(text)
            /\ \A k \in 1..n : ReAtomMatches(atoms[k], text[i + k - 1], case_sensitive)

RegexFields == {NAME, ROLE, REF}

\* A search of the names that passes over the elements without a name.
RECURSIVE RegexSearchSkipUnnamed(_, _, _, _, _)
RegexSearchSkipUnnamed(items, pattern, field, case_sensitive, acc) ==
    IF items = <<>> \/ acc.raised THEN acc
    ELSE LET item == Head(items)
         IN  IF field \notin RegexFields THEN [acc EXCEPT !.raised = TRUE]
             ELSE LET field_value == IF field = NAME THEN NameOrEmpty(item)
                                     ELSE IF field = ROLE THEN data[item].role
                                     ELSE data[item].ref
                      acc1 == IF /\ field = NAME => data[item].named
                                 /\ ReSearch(pattern, case_sensitive, field_value)
                              THEN [acc EXCEPT !.results = Append(@, item)] ELSE acc
                      acc2 == RegexSearchSkipUnnamed(Children(item), pattern, field,
                                                     case_sensitive, acc1)
                  IN  RegexSearchSkipUnnamed(Tail(items), pattern, field, case_sensitive, acc2)

\* search_recursive: acc holds results and whether ValueError was raised,
\* which ends the traversal.
RECURSIVE RegexSearch(_, _, _, _, _)
RegexSearch(items, pattern, field, case_sensitive, acc) ==
    IF items = <<>> \/ acc.raised THEN acc
    ELSE LET item == Head(items)
         IN  IF field \notin RegexFields THEN [acc EXCEPT !.raised = TRUE]
             ELSE LET field_value == IF field = NAME THEN NameOrEmpty(item)
                                     ELSE IF field = ROLE THEN data[item].role
                                     ELSE data[item].ref
                      acc1 == IF ReSearch(pattern, case_sensitive, field_value)
                              THEN [acc EXCEPT !.results = Append(@, item)] ELSE acc
                      acc2 == RegexSearch(Children(item), pattern, field, case_sensitive, acc1)
                  IN  RegexSearch(Tail(items), pattern, field, case_sensitive, acc2)

\* A search that walks the tree before it looks at the pattern.
FindByRegexLateCompile(pattern, field, case_sensitive) ==
    LET acc == RegexSearch(Children(0), IF ReCompiles(pattern) THEN pattern ELSE <<>>,
                           field, case_sensitive, [raised |-> FALSE, results |-> <<>>])
    IN  IF acc.raised THEN Raised("ValueError: unsupported field")
        ELSE IF ~ReCompiles(pattern) THEN Raised("ValueError: invalid regular expression")
        ELSE Returned(acc.results)

find_by_regex(pattern, field, case_sensitive) ==
    IF ~ReCompiles(pattern) THEN Raised("ValueError: invalid regular expression")
    ELSE LET acc == RegexSearch(Children(0), pattern, field, case_sensitive,
                                [raised |-> FALSE, results |-> <<>>])
         IN  IF acc.raised THEN Raised("ValueError: unsupported field")
             ELSE Returned(acc.results)

(***************************************************************************)
(* BM25Index.  A float is a fixed-point integer in units of 1/Scale, but   *)
(* avg_doc_len, which is kept as an exact ratio.  A dict is a function on  *)
(* its keys.  Documents are numbered from 1.                               *)
(***************************************************************************)
Scale == 10000

\* k1 = 1.5 and b = 0.75, as ratios
K1Num == 3

K1Den == 2

BNum == 3

BDen == 4

\* re.sub(r'[^\w\s\u4e00-\u9fff]', ' ', text.lower())
Cleaned(text) ==
    [k \in 1..Len(text) |->
        LET c == Lower(text[k])
        IN  IF IsWord(c) \/ IsSpace(c) \/ IsCJK(c) THEN c ELSE " "]

\* re.match(r'[\u4e00-\u9fff]+', word): a match at the start of word, which
\* need not reach its end.
MatchesCJK(word) == word # <<>> /\ IsCJK(word[1])

WordTokens(word) ==
    IF MatchesCJK(word) THEN [k \in 1..Len(word) |-> <<word[k]>>] ELSE <<word>>

RECURSIVE TokensOf(_)
TokensOf(words) ==
    IF words = <<>> THEN <<>> ELSE WordTokens(Head(words)) \o TokensOf(Tail(words))

tokenize(text) ==
    LET NonBlank(t) == Strip(t) # <<>>
    IN  SelectSeq(TokensOf(Split(Cleaned(text))), NonBlank)

\* BM25Index(): the index after __init__
NewIndex == [NoIndex EXCEPT !.exists = TRUE]

\* The defaultdict add_document fills: each token's number of occurrences.
Counts(tokens) ==
    [t \in {tokens[k] : k \in 1..Len(tokens)} |->
        Cardinality({k \in 1..Len(tokens) : tokens[k] = t})]

\* An add_document that leaves _built as it is.
AddDocumentKeepBuilt(index, text) ==
    [index EXCEPT !.documents = Append(@, text),
                  !.doc_freqs = Append(@, Counts(tokenize(text)))]

add_document(index, text) ==
    [index EXCEPT !.documents = Append(@, text),
                  !.doc_freqs = Append(@, Counts(tokenize(text))),
                  !.built = FALSE]

\* sum(freqs.values())
RECURSIVE SumOver(_, _)
SumOver(freqs, keys) ==
    IF keys = {} THEN 0
    ELSE LET t == CHOOSE t \in keys : TRUE IN freqs[t] + SumOver(freqs, keys \ {t})

DocLen(freqs) == SumOver(freqs, DOMAIN freqs)

RECURSIVE TotalLen(_)
TotalLen(doc_freqs) ==
    IF doc_freqs = <<>> THEN 0 ELSE DocLen(Head(doc_freqs)) + TotalLen(Tail(doc_freqs))

\* The series of atanh(z) = z + z^3/3 + z^5/5 + ..., for 0 <= z < 1, from
\* the term zpow/k on.
RECURSIVE AtanhSeries(_, _, _)
AtanhSeries(zpow, z2, k) ==
    IF zpow = 0 THEN 0 ELSE zpow \div k + AtanhSeries((zpow * z2) \div Scale, z2, k + 2)

\* math.log(num / den) for num >= den > 0: 2 * atanh((num - den) / (num + den))
Log(num, den) ==
    LET z == ((num - den) * Scale) \div (num + den)
    IN  2 * AtanhSeries(z, (z * z) \div Scale, 1)

\* An inverse document frequency without the 1.0 added to the ratio's
\* numerator side: log((doc_count + 0.5) / (n + 0.5)).
IdfOfRatio(doc_count, n) == Log(2 * doc_count + 1, 2 * n + 1)

\* math.log((doc_count - n + 0.5) / (n + 0.5) + 1.0)
Idf(doc_count, n) == Log(2 * doc_count + 2, 2 * n + 1)

build(index) ==
    IF index.built THEN index
    ELSE IF index.documents = <<>> THEN [index EXCEPT !.built = TRUE]
    ELSE LET doc_count == Len(index.documents)
             terms == UNION {DOMAIN index.doc_freqs[i] : i \in 1..doc_count}
             term_doc_count(t) ==
                 Cardinality({i \in 1..doc_count : t \in DOMAIN index.doc_freqs[i]})
         IN  [index EXCEPT
                 !.avg_doc_len = [num |-> TotalLen(index.doc_freqs), den |-> doc_count],
                 !.idf = [t \in terms |-> Idf(doc_count, term_doc_count(t))],
                 !.built = TRUE]

\* One query term's share of score: idf * tf * (k1 + 1) /
\* (tf + k1 * (1 - b + b * (doc_len / avg_doc_len))), the fraction reduced
\* to one integer division.
TermScore(index, term, doc_idx) ==
    LET doc_freqs == index.doc_freqs[doc_idx]
        doc_len   == DocLen(doc_freqs)
        term_freq == IF term \in DOMAIN doc_freqs THEN doc_freqs[term] ELSE 0
        avg       == index.avg_doc_len
    IN  IF term \notin DOMAIN index.idf \/ term_freq = 0 THEN 0
        ELSE (index.idf[term] * term_freq * (K1Num + K1Den) * BDen * avg.num) \div
             (term_freq * K1Den * BDen * avg.num
                + K1Num * ((BDen - BNum) * avg.num + BNum * doc_len * avg.den))

\* self.doc_freqs[doc_idx]: the position Python reads.  doc_idx counts from
\* 1 here, so 0 stands for Python's -1: an index below the first counts
\* from the end of the list.
Resolve(n, doc_idx) == IF doc_idx >= 1 THEN doc_idx ELSE n + doc_idx

\* score raises IndexError: doc_idx passes the test doc_idx >= len(documents)
\* and the list has no such position, counted from the end.
ScoreIndexError(index, doc_idx) ==
    /\ doc_idx < 1
    /\ Resolve(Len(index.documents), doc_idx) < 1

\* A score that divides by the average length for every query term, before
\* it looks whether the document holds the term.
ScoreRaisesUnguarded(index, query, doc_idx) ==
    /\ doc_idx <= Len(build(index).documents)
    /\ tokenize(query) # <<>>
    /\ build(index).avg_doc_len.num = 0

\* score raises ZeroDivisionError: for some query term that has an idf and
\* occurs in the document, doc_len / self.avg_doc_len is evaluated while
\* avg_doc_len is 0.
ScoreRaises(index, query, doc_idx) ==
    LET built == build(index)
        doc_freqs == built.doc_freqs[Resolve(Len(built.documents), doc_idx)]
    IN  /\ doc_idx <= Len(built.documents)
        /\ ~ScoreIndexError(index, doc_idx)
        /\ \E k \in 1..Len(tokenize(query)) :
               LET term == tokenize(query)[k]
               IN  /\ term \in DOMAIN built.idf
                   /\ term \in DOMAIN doc_freqs
                   /\ doc_freqs[term] # 0
                   /\ built.avg_doc_len.num = 0

RECURSIVE SumScores(_, _, _)
SumScores(index, query_tokens, doc_idx) ==
    IF query_tokens = <<>> THEN 0
    ELSE TermScore(index, Head(query_tokens), doc_idx)
            + SumScores(index, Tail(query_tokens), doc_idx)

score(index, query, doc_idx) ==
    LET built == build(index)
    IN  IF doc_idx > Len(built.documents) THEN 0
        ELSE SumScores(built, tokenize(query), Resolve(Len(built.documents), doc_idx))

\* A search that forgets to cut its list.
SliceNothing(seq, k) == seq

\* seq[:k]
SliceTo(seq, k) ==
    IF k >= 0 THEN SubSeq(seq, 1, IF k < Len(seq) THEN k ELSE Len(seq))
    ELSE SubSeq(seq, 1, IF Len(seq) + k > 0 THEN Len(seq) + k ELSE 0)

\* A sort that puts an entry before the entries of equal score that came
\* before it.
RECURSIVE SortTiesReversed(_)
SortTiesReversed(scores) ==
    IF scores = <<>> THEN <<>>
    ELSE LET x      == scores[Len(scores)]
             sorted == SortTiesReversed(SubSeq(scores, 1, Len(scores) - 1))
             n      == Cardinality({k \in 1..Len(sorted) : sorted[k].score > x.score})
         IN  SubSeq(sorted, 1, n) \o <<x>> \o SubSeq(sorted, n + 1, Len(sorted))

\* scores.sort(key=lambda x: x[1], reverse=True): a stable sort, entries of
\* equal score keep their order.
RECURSIVE SortByScore(_)
SortByScore(scores) ==
    IF scores = <<>> THEN <<>>
    ELSE LET x      == scores[Len(scores)]
             sorted == SortByScore(SubSeq(scores, 1, Len(scores) - 1))
             n      == Cardinality({k \in 1..Len(sorted) : sorted[k].score >= x.score})
         IN  SubSeq(sorted, 1, n) \o <<x>> \o SubSeq(sorted, n + 1, Len(sorted))

\* A search that keeps the documents of score 0.
SearchUnfiltered(index, query, has_top_k, top_k) ==
    LET built  == build(index)
        scores == [i \in 1..Len(built.documents) |->
                      [idx |-> i, score |-> score(built, query, i)]]
    IN  IF has_top_k THEN SliceTo(SortByScore(scores), top_k) ELSE SortByScore(scores)

search(index, query, has_top_k, top_k) ==
    LET built    == build(index)
        scores   == [i \in 1..Len(built.documents) |->
                        [idx |-> i, score |-> score(built, query, i)]]
        Positive(x) == x.score > 0
        positive == SelectSeq(SortByScore(scores), Positive)
    IN  IF has_top_k THEN SliceTo(positive, top_k) ELSE positive

(***************************************************************************)
(* SnapshotQuery._build_bm25_index and find_by_name_bm25.                  *)
(***************************************************************************)
\* if item.name: the name is there and is not the empty string
NameTruthy(i) == data[i].named /\ data[i].name # <<>>

\* A collection that takes every element that has a name, the empty name
\* included.
RECURSIVE CollectNamedElements(_)
CollectNamedElements(items) ==
    IF items = <<>> THEN <<>>
    ELSE LET item == Head(items)
         IN  (IF data[item].named THEN <<item>> ELSE <<>>)
                \o CollectNamedElements(Children(item))
                \o CollectNamedElements(Tail(items))

\* collect_elements: the elements that get a document, in pre-order
RECURSIVE CollectElements(_)
CollectElements(items) ==
    IF items = <<>> THEN <<>>
    ELSE LET item == Head(items)
         IN  (IF NameTruthy(item) THEN <<item>> ELSE <<>>)
                \o CollectElements(Children(item))
                \o CollectElements(Tail(items))

RECURSIVE AddDocuments(_, _)
AddDocuments(index, elems) ==
    IF elems = <<>> THEN index
    ELSE AddDocuments(add_document(index, data[Head(elems)].name), Tail(elems))

\* An index that is filled again by every call.
BuildBm25IndexAgain ==
    LET elems == CollectElements(Children(0))
    IN  <<build(AddDocuments(IF bm25_index.exists THEN bm25_index ELSE NewIndex, elems)),
          elements_with_names \o elems>>

\* The pair <<self._bm25_index, self._elements_with_names>> after the call.
build_bm25_index ==
    IF bm25_index.exists THEN <<bm25_index, elements_with_names>>
    ELSE LET elems == CollectElements(Children(0))
         IN  <<build(AddDocuments(NewIndex, elems)), elems>>

\* The value find_by_name_bm25 returns, given the index and the list
\* _build_bm25_index has left.
RankedElements(index, elems, name, has_top_k, top_k) ==
    IF elems = <<>> THEN <<>>
    ELSE LET results == search(index, name, has_top_k, top_k)
         IN  [k \in 1..Len(results) |-> elems[results[k].idx]]

(***************************************************************************)
(* The calls of a session.  The engine is synchronous and single-threaded: *)
(* a call is made when no call is in progress, and its result is handed    *)
(* to the caller (Return) before the next call.  These calls leave the     *)
(* tree and the index alone.                                               *)
(***************************************************************************)
Idle == call.op = "none"

Return ==
    /\ ~Idle
    /\ call' = NoCall
    /\ ret' = NoRet
    /\ UNCHANGED <<data, bm25_index, elements_with_names, threads>>

FindByRole(role) ==
    /\ Idle
    /\ call' = Call1("find_by_role", role)
    /\ ret' = Returned(find_by_role(role))
    /\ UNCHANGED <<data, bm25_index, elements_with_names, threads>>

FindByRef(ref) ==
    /\ Idle
    /\ call' = Call1("find_by_ref", ref)
    /\ ret' = ReturnedElement(find_by_ref(ref))
    /\ UNCHANGED <<data, bm25_index, elements_with_names, threads>>

FindBySelector(selector) ==
    /\ Idle
    /\ call' = Call1("find_by_selector", selector)
    /\ ret' = Returned(find_by_selector(selector))
    /\ UNCHANGED <<data, bm25_index, elements_with_names, threads>>

(***************************************************************************)
(* Reference lookup: trees whose refs repeat, looked up by find_by_ref     *)
(* and by the selector '#' + ref.                                          *)
(***************************************************************************)
RefValues == {<<"r">>, <<"s">>, <<"r", " ", "s">>}

RefQueries == RefValues \cup {<<"t">>, <<>>}

RefLabels == {Node(<<"a">>, ref, FALSE, <<>>) : ref \in RefValues}

InitRef == Session(Trees(RefLabels, MaxNodes))

NextRef ==
    \/ \E x \in RefQueries : FindByRef(x)
    \/ \E x \in RefQueries : FindBySelector(<<"#">> \o x)
    \/ Return

SpecRef == InitRef /\ [][NextRef]_vars

\* The elements that satisfy P, in document pre-order.
InPreorder(P(_)) == SelectSeq([j \in 1..Len(data) |-> j], P)

WithRef(x) == InPreorder(LAMBDA j : data[j].ref = x)

\* A string a selector fragment can hold: no whitespace and no '>'.
IsFragmentText(x) == \A k \in 1..Len(x) : ~IsSpace(x[k]) /\ x[k] # ">"

IdSelectorCall == call.op = "find_by_selector" /\ StartsWith(call.s, <<"#">>)

\* C1 as stated: find_by_selector('#' + x) is the singleton of find_by_ref(x),
\* or empty when find_by_ref(x) is None, for every tree and every x.
C1_AsStated ==
    IdSelectorCall =>
        ret.val = (IF find_by_ref(Tail(call.s)) = 0 THEN <<>>
                   ELSE <<find_by_ref(Tail(call.s))>>)

\* C1 amended: for x without whitespace or '>', find_by_selector('#' + x) lists
\* every element whose ref is x, in pre-order; it is empty exactly when
\* find_by_ref(x) is None, otherwise its first element is find_by_ref(x), and
\* it is a singleton when only one element has ref x.
C1_IdSelector ==
    (IdSelectorCall /\ IsFragmentText(Tail(call.s))) =>
        LET x == Tail(call.s)
        IN  /\ ret.raised = "none"
            /\ ret.val = WithRef(x)
            /\ (ret.val = <<>>) <=> (find_by_ref(x) = 0)
            /\ ret.val # <<>> => ret.val[1] = find_by_ref(x)
            /\ Cardinality({j \in Elements : data[j].ref = x}) = 1 => Len(ret.val) = 1

C1_Witness ==
    /\ IdSelectorCall
    /\ IsFragmentText(Tail(call.s))
    /\ Len(ret.val) >= 2
    /\ ret.val[1] = find_by_ref(Tail(call.s))

\* C10: find_by_ref(r) returns the first element in pre-order whose ref is r,
\* also when several elements share it, and None, without raising, when no
\* element has ref r.
C10_FirstInPreorder ==
    call.op = "find_by_ref" =>
        /\ ret.raised = "none"
        /\ ret.elem = (IF WithRef(call.s) = <<>> THEN 0 ELSE WithRef(call.s)[1])

C10_Witness ==
    /\ call.op = "find_by_ref"
    /\ Len(WithRef(call.s)) >= 2
    /\ ret.elem = WithRef(call.s)[1]
    /\ ret.elem > 1
    /\ \E j \in Elements : j > ret.elem /\ data[j].ref = call.s /\ Depth(j) < Depth(ret.elem)

(***************************************************************************)
(* Role search: trees whose roles vary, searched by find_by_role and by    *)
(* the selector made of the role alone.                                    *)
(***************************************************************************)
RoleValues == {<<"a">>, <<"b">>, <<"a", "-">>}

RoleQueries == RoleValues \cup {<<"c">>, <<>>}

RoleLabels == {Node(role, <<"r">>, FALSE, <<>>) : role \in RoleValues}

InitRole == Session(Trees(RoleLabels, MaxNodes))

NextRole ==
    \/ \E t \in RoleQueries : FindByRole(t)
    \/ \E t \in RoleQueries : FindBySelector(t)
    \/ Return

SpecRole == InitRole /\ [][NextRole]_vars

\* The grammar's bare identifier: [A-Za-z][A-Za-z0-9]*.
IsBareIdentifier(t) ==
    /\ t # <<>>
    /\ t[1] \in AlphaChars
    /\ \A k \in 2..Len(t) : t[k] \in AlnumChars

\* C2 as stated: for every role string t, find_by_selector(t) is the same
\* sequence as find_by_role(t).
C2_AsStated == call.op = "find_by_selector" => ret.val = find_by_role(call.s)

\* C2 amended: for every role string t that is a bare identifier
\* ([A-Za-z][A-Za-z0-9]*), find_by_selector(t) is the same sequence, in the
\* same order, as find_by_role(t).
C2_TagSelector ==
    (call.op = "find_by_selector" /\ IsBareIdentifier(call.s)) =>
        /\ ret.raised = "none"
        /\ ret.val = find_by_role(call.s)
        /\ ret.val = InPreorder(LAMBDA j : data[j].role = call.s)

C2_Witness ==
    /\ call.op = "find_by_selector"
    /\ IsBareIdentifier(call.s)
    /\ Len(ret.val) >= 2
    /\ \E j \in Elements : data[j].role # call.s
    /\ \E k \in 1..Len(ret.val) : Depth(ret.val[k]) > 0

(***************************************************************************)
(* Combinators: trees of roles a and b, searched with selectors of up to   *)
(* MaxFragments fragments joined by ' ' or '>', some fragments being text  *)
(* the grammar does not allow.                                             *)
(***************************************************************************)
GoodFragments == {<<"a">>, <<"b">>}

BadFragments == {<<"?">>}

Separators == {<<" ">>, <<">">>}

RECURSIVE SelectorsOf(_)
SelectorsOf(n) ==
    IF n = 1 THEN GoodFragments \cup BadFragments
    ELSE {s \o sep \o f : s \in SelectorsOf(n - 1), sep \in Separators,
                          f \in GoodFragments \cup BadFragments}

BlankSelectors == {<<>>, <<" ">>, <<" ", " ">>}

OddSelectors ==
    {<<"a", "-">>, <<"1", "a">>, <<"[">>, <<"[", "]">>, <<"a", "[">>, <<"=">>,
     <<"a", " ", ">", " ", "b">>, <<" ", "a", " ", " ", "b", " ">>}

CombinatorSelectors ==
    UNION {SelectorsOf(n) : n \in 1..MaxFragments} \cup BlankSelectors \cup OddSelectors

CombinatorLabels == {Node(role, <<"r">>, FALSE, <<>>) : role \in GoodFragments}

InitCombinator == Session(Trees(CombinatorLabels, MaxNodes))

NextCombinator ==
    \/ \E selector \in CombinatorSelectors : FindBySelector(selector)
    \/ Return

SpecCombinator == InitCombinator /\ [][NextCombinator]_vars

\* The fragments of a selector: its maximal runs without whitespace or '>'.
RECURSIVE FragmentsOf(_)
FragmentsOf(s) ==
    IF s = <<>> THEN <<>>
    ELSE IF IsSpace(Head(s)) \/ Head(s) = ">" THEN FragmentsOf(Tail(s))
    ELSE LET n == CHOOSE n \in 1..Len(s) :
                      /\ \A k \in 1..n : ~IsSpace(s[k]) /\ s[k] # ">"
                      /\ n = Len(s) \/ IsSpace(s[n + 1]) \/ s[n + 1] = ">"
         IN  <<SubSeq(s, 1, n)>> \o FragmentsOf(Drop(s, n))

RECURSIVE JoinWithSpaces(_)
JoinWithSpaces(fs) ==
    IF fs = <<>> THEN <<>>
    ELSE IF Len(fs) = 1 THEN fs[1]
    ELSE fs[1] \o <<" ">> \o JoinWithSpaces(Tail(fs))

\* A fragment the grammar allows: a role identifier, '#ref', bracketed
\* attribute clauses, or a role fused to brackets.
IsGrammarFragment(f) ==
    \/ IsBareIdentifier(f)
    \/ Len(f) >= 2 /\ f[1] = "#"
    \/ \E n \in 0..Len(f) :
           /\ n = 0 \/ IsBareIdentifier(SubSeq(f, 1, n))
           /\ Len(f) >= n + 3 /\ f[n + 1] = "[" /\ f[Len(f)] = "]"

\* i matches the first role of roles, some proper descendant of i the second,
\* some proper descendant of that one the third, and so on.
RECURSIVE DescendantChain(_, _)
DescendantChain(i, roles) ==
    /\ data[i].role = roles[1]
    /\ Len(roles) = 1 \/ \E j \in Descendants(i) : DescendantChain(j, Tail(roles))

\* A selector of three or more role fragments joined by single spaces.
IsLongDescendantSelector(s) ==
    /\ Len(FragmentsOf(s)) >= 3
    /\ \A k \in 1..Len(FragmentsOf(s)) : IsBareIdentifier(FragmentsOf(s)[k])
    /\ s = JoinWithSpaces(FragmentsOf(s))

\* C3: for a selector of three or more fragments joined by descendant
\* combinators, find_by_selector returns every element that matches the first
\* fragment and has a descendant matching the second, which has a descendant
\* matching the third, and so on.
C3_DescendantChain ==
    (call.op = "find_by_selector" /\ IsLongDescendantSelector(call.s)) =>
        ret.val = InPreorder(LAMBDA i : DescendantChain(i, FragmentsOf(call.s)))

\* A selector that is empty, whitespace-only, or holds a fragment outside the
\* grammar.
IsUnparseable(s) ==
    \/ Strip(s) = <<>>
    \/ \E k \in 1..Len(FragmentsOf(s)) : ~IsGrammarFragment(FragmentsOf(s)[k])

GrammarFragmentsOf(s) == SelectSeq(FragmentsOf(s), IsGrammarFragment)

AttrLabels ==
    {Node(<<"x">>, <<"x", "y">>, FALSE, <<>>),
     Node(<<"x", "y">>, <<"y", "x">>, TRUE, <<"x">>),
     Node(<<"y", "x">>, <<"x">>, TRUE, <<"x", "y">>),
     Node(<<"x">>, <<"x">>, TRUE, <<>>)}

Attributes == {NAME, ROLE, REF}

Operators == {<<>>, <<"*">>, <<"^">>, <<"$">>}

AttrValues == {<<>>, <<"x">>, <<"^", "x">>, <<"x", "$">>, <<"*", "x", "*">>, <<"*">>}

Quotes == {<<>>, <<"\"">>}

\* The text of one clause: [a op= v], the value inside the quotes q.
Clause(a, op, q, v) == <<"[">> \o a \o op \o <<"=">> \o q \o v \o q \o <<"]">>

OneClauseSelectors == {Clause(a, op, <<>>, v) : a \in Attributes, op \in Operators, v \in AttrValues}

ClauseTriples == {<<a, op, <<"x">>>> : a \in Attributes, op \in {<<>>, <<"*">>}}

ClausePairs == {cs \in ClauseTriples \X ClauseTriples : cs[1][1] # cs[2][1]}

\* A fragment of two clauses, with the role tag fused in front (or tag = <<>>).
TwoClauses(tag, q, cs) ==
    tag \o Clause(cs[1][1], cs[1][2], q, cs[1][3]) \o Clause(cs[2][1], cs[2][2], q, cs[2][3])

TwoClauseSelectors ==
    {TwoClauses(tag, q, cs) : tag \in {<<>>, <<"x">>}, q \in Quotes, cs \in ClausePairs}

InitAttr == Session(Trees(AttrLabels, MaxNodes))

NextAttr ==
    \/ \E selector \in OneClauseSelectors : FindBySelector(selector)
    \/ \E selector \in TwoClauseSelectors : FindBySelector(selector)
    \/ Return

SpecAttr == InitAttr /\ [][NextAttr]_vars

\* The value of attribute a of element i, a missing name being ''.
FieldOf(i, a) ==
    IF a = NAME THEN NameOrEmpty(i) ELSE IF a = ROLE THEN data[i].role ELSE data[i].ref

\* What the operator written in the clause asks of the element's value.
OperatorHolds(op, value, v) ==
    IF op = <<"*">> THEN Contains(value, v)
    ELSE IF op = <<"^">> THEN StartsWith(value, v)
    ELSE IF op = <<"$">> THEN EndsWith(value, v)
    ELSE value = v

\* C5: [a=v] matches exactly the elements whose a equals v, [a*=v] those whose
\* a contains v, [a^=v] those whose a starts with v, [a$=v] those whose a ends
\* with v; the operator written alone decides, whatever characters v holds.
C5_OperatorDecides ==
    \A a \in Attributes, op \in Operators, v \in AttrValues :
        (call.op = "find_by_selector" /\ call.s = Clause(a, op, <<>>, v)) =>
            ret.val = InPreorder(LAMBDA i : OperatorHolds(op, FieldOf(i, a), v))

\* C6: a fragment of two or more bracketed clauses, with or without a role
\* fused in front, matches exactly the elements that satisfy every clause.
C6_ClausesAnded ==
    \A tag \in {<<>>, <<"x">>}, q \in Quotes, cs \in ClausePairs :
        (call.op = "find_by_selector" /\ call.s = TwoClauses(tag, q, cs)) =>
            ret.val = InPreorder(LAMBDA i :
                          /\ tag # <<>> => data[i].role = tag
                          /\ OperatorHolds(cs[1][2], FieldOf(i, cs[1][1]), cs[1][3])
                          /\ OperatorHolds(cs[2][2], FieldOf(i, cs[2][1]), cs[2][3]))

FindByRegex(pattern, field, case_sensitive) ==
    /\ Idle
    /\ call' = [NoCall EXCEPT !.op = "find_by_regex", !.s = pattern, !.field = field,
                              !.case_sensitive = case_sensitive]
    /\ ret' = find_by_regex(pattern, field, case_sensitive)
    /\ UNCHANGED <<data, bm25_index, elements_with_names, threads>>

Tokenize(text) ==
    /\ Idle
    /\ call' = Call1("tokenize", text)
    /\ ret' = Returned(tokenize(text))
    /\ UNCHANGED <<data, bm25_index, elements_with_names, threads>>

FindByNameBm25(name, has_top_k, top_k) ==
    /\ Idle
    /\ call' = [NoCall EXCEPT !.op = "find_by_name_bm25", !.s = name,
                              !.has_top_k = has_top_k, !.top_k = top_k]
    /\ bm25_index' = build_bm25_index[1]
    /\ elements_with_names' = build_bm25_index[2]
    /\ ret' = Returned(RankedElements(build_bm25_index[1], build_bm25_index[2],
                                      name, has_top_k, top_k))
    /\ UNCHANGED <<data, threads>>

(***************************************************************************)
(* Regular-expression search: patterns that compile and patterns that do   *)
(* not, over the three fields and a field the engine does not know.        *)
(***************************************************************************)
RegexLabels ==
    {Node(<<"x">>, <<"r">>, FALSE, <<>>),
     Node(<<"y">>, <<"s">>, TRUE, <<"x", "y">>),
     Node(<<"X">>, <<"r">>, TRUE, <<"X">>)}

Patterns == {<<>>, <<"x">>, <<"^", "x">>, <<"x", "$">>, <<"^", "$">>, <<".">>, <<"[">>, <<"*">>}

FieldArguments == RegexFields \cup {<<"t", "a", "g">>}

InitRegex == Session(Trees(RegexLabels, MaxNodes))

NextRegex ==
    \/ \E pattern \in Patterns, field \in FieldArguments, case_sensitive \in BOOLEAN :
           FindByRegex(pattern, field, case_sensitive)
    \/ Return

SpecRegex == InitRegex /\ [][NextRegex]_vars

\* C7: find_by_regex with a field other than name, role, ref fails with an
\* error and returns no list, for every tree, a tree without elements
\* included, and every pattern that compiles.
C7_InvalidFieldFails ==
    (call.op = "find_by_regex" /\ call.field \notin {NAME, ROLE, REF} /\ ReCompiles(call.s)) =>
        ret.raised # "none"

(***************************************************************************)
(* Ranked search: trees whose names share terms, queries of one and two    *)
(* terms and one no name holds, and top_k absent, negative, zero and       *)
(* positive.                                                               *)
(***************************************************************************)
BM25Labels ==
    {Node(<<"a">>, <<"r">>, TRUE, <<"x">>),
     Node(<<"a">>, <<"r">>, TRUE, <<"x", " ", "y">>),
     Node(<<"a">>, <<"r">>, TRUE, <<"Y", "-", "y">>),
     Node(<<"a">>, <<"r">>, TRUE, <<>>),
     Node(<<"a">>, <<"r">>, FALSE, <<>>)}

BM25Queries == {<<"x">>, <<"y", " ", "X">>, <<"a">>}

TopKs == {-2, -1, 0, 1, 2}

InitBM25 == Session(Trees(BM25Labels, MaxNodes))

NextBM25 ==
    \/ \E name \in BM25Queries : FindByNameBm25(name, FALSE, 0)
    \/ \E name \in BM25Queries, top_k \in TopKs : FindByNameBm25(name, TRUE, top_k)
    \/ Return

SpecBM25 == InitBM25 /\ [][NextBM25]_vars

\* The score the index gives element e for the query of the call.
ScoreOf(e) ==
    LET doc_idx == CHOOSE i \in 1..Len(elements_with_names) : elements_with_names[i] = e
    IN  score(bm25_index, call.s, doc_idx)

PositiveScores == \A k \in 1..Len(ret.val) : ScoreOf(ret.val[k]) > 0

NonIncreasingScores ==
    \A j, k \in 1..Len(ret.val) : j < k => ScoreOf(ret.val[j]) >= ScoreOf(ret.val[k])

\* The number of indexed elements the query of the call scores above zero.
NumPositive ==
    Cardinality({i \in 1..Len(elements_with_names) : score(bm25_index, call.s, i) > 0})

\* C8 as the claim states it: for every integer k, find_by_name_bm25(q,
\* top_k=k) returns at most k elements, each of strictly positive score, in
\* non-increasing score order.
C8_AsStated ==
    (call.op = "find_by_name_bm25" /\ call.has_top_k) =>
        /\ Len(ret.val) <= call.top_k
        /\ PositiveScores
        /\ NonIncreasingScores

\* C8, amended: find_by_name_bm25(q, top_k=k) returns at most k elements when
\* k >= 0; a negative k is no limit but cuts the last -k entries off the
\* ranked list of the positive-scored elements; for every k the returned
\* elements have strictly positive scores, in non-increasing order.
C8_RankedTopK ==
    (call.op = "find_by_name_bm25" /\ call.has_top_k) =>
        /\ call.top_k >= 0 => Len(ret.val) <= call.top_k
        /\ call.top_k < 0 =>
              Len(ret.val) = IF NumPositive + call.top_k > 0 THEN NumPositive + call.top_k ELSE 0
        /\ PositiveScores
        /\ NonIncreasingScores

\* C8 witness: top_k = 1 cuts a ranked list of elements with two different
\* positive scores down to its best element.
C8_Witness ==
    /\ call.op = "find_by_name_bm25" /\ call.has_top_k /\ call.top_k = 1
    /\ Len(ret.val) = 1
    /\ \E i \in 1..Len(elements_with_names) :
          /\ score(bm25_index, call.s, i) > 0
          /\ score(bm25_index, call.s, i) < ScoreOf(ret.val[1])

(***************************************************************************)
(* The tokenizer, on every text of up to MaxTextLen characters.            *)
(***************************************************************************)
MaxTextLen == 3

TokAlphabet == {"a", "A", "1", "U4E2D", "U6587", " ", "-"}

RECURSIVE Texts(_)
Texts(n) ==
    IF n = 0 THEN {<<>>}
    ELSE Texts(n - 1) \cup {Append(t, c) : t \in {u \in Texts(n - 1) : Len(u) = n - 1}, c \in TokAlphabet}

InitTok == Session({<<>>})

NextTok ==
    \/ \E text \in Texts(MaxTextLen) : Tokenize(text)
    \/ Return

SpecTok == InitTok /\ [][NextTok]_vars

\* The terms the claim gives a chunk: one per character if the chunk is made
\* of CJK ideographs only, the chunk itself otherwise.
ClaimedWordTokens(word) ==
    IF \A k \in 1..Len(word) : IsCJK(word[k])
    THEN [k \in 1..Len(word) |-> <<word[k]>>]
    ELSE <<word>>

RECURSIVE ClaimedTokensOf(_)
ClaimedTokensOf(words) ==
    IF words = <<>> THEN <<>>
    ELSE ClaimedWordTokens(Head(words)) \o ClaimedTokensOf(Tail(words))

\* C9: tokenize lower-cases the text, turns every character that is neither
\* a word character, whitespace nor a CJK ideograph into a separator, splits
\* on whitespace, and emits a chunk as one term per character only if it is
\* made of CJK ideographs only, every other chunk whole; no term is empty.
C9_ChunkPolicy ==
    call.op = "tokenize" =>
        /\ ret.val = ClaimedTokensOf(Split(Cleaned(call.s)))
        /\ \A k \in 1..Len(ret.val) : ret.val[k] # <<>>

(***************************************************************************)
(* get_element_path.                                                       *)
(***************************************************************************)
\* A search that forgets the elements above the one it finds.
RECURSIVE PathSearchNoAncestors(_, _, _)
PathSearchNoAncestors(items, ref, current_path) ==
    IF items = <<>> THEN <<>>
    ELSE LET item == Head(items)
         IN  IF data[item].ref = ref THEN <<item>>
             ELSE LET result == PathSearchNoAncestors(Children(item), ref, <<>>)
                  IN  IF result # <<>> THEN result
                      ELSE PathSearchNoAncestors(Tail(items), ref, <<>>)

\* search_recursive(items, current_path); <<>> stands for None, which no
\* path it returns can be taken for since a path holds its last element.
RECURSIVE PathSearch(_, _, _)
PathSearch(items, ref, current_path) ==
    IF items = <<>> THEN <<>>
    ELSE LET item     == Head(items)
             new_path == Append(current_path, item)
         IN  IF data[item].ref = ref THEN new_path
             ELSE LET result == PathSearch(Children(item), ref, new_path)
                  IN  IF result # <<>> THEN result
                      ELSE PathSearch(Tail(items), ref, current_path)

get_element_path(ref) == PathSearch(Children(0), ref, <<>>)

GetElementPath(ref) ==
    /\ Idle
    /\ call' = Call1("get_element_path", ref)
    /\ ret' = Returned(get_element_path(ref))
    /\ UNCHANGED <<data, bm25_index, elements_with_names, threads>>

(***************************************************************************)
(* Paths: the trees of the reference lookups, with refs that repeat.       *)
(***************************************************************************)
NextPath ==
    \/ \E x \in RefQueries : GetElementPath(x)
    \/ \E x \in RefQueries : FindByRef(x)
    \/ Return

SpecPath == InitRef /\ [][NextPath]_vars

\* C11: if some element has ref r, get_element_path(r) is the chain from a
\* top-level element down to the element find_by_ref(r) returns, each
\* element a direct child of the one before, of length that element's depth
\* plus one; if no element has ref r it is the empty list.
C11_PathToFirst ==
    call.op = "get_element_path" =>
        LET e    == find_by_ref(call.s)
            path == ret.val
        IN  /\ ret.raised = "none"
            /\ (\A j \in Elements : data[j].ref # call.s) => path = <<>>
            /\ (\E j \in Elements : data[j].ref = call.s) =>
                  /\ e # 0 /\ data[e].ref = call.s
                  /\ Len(path) = Depth(e) + 1
                  /\ path[Len(path)] = e
                  /\ data[path[1]].parent = 0
                  /\ \A k \in 1..(Len(path) - 1) : data[path[k + 1]].parent = path[k]

\* C11 witness: the path to an element below a top-level one, which is not
\* the only element with its ref.
C11_Witness ==
    /\ call.op = "get_element_path"
    /\ Len(ret.val) = 2
    /\ Len(WithRef(call.s)) >= 2

(***************************************************************************)
(* Two-fragment selectors, under SpecCombinator.                           *)
(***************************************************************************)
\* The elements of a sequence.
Range(seq) == {seq[k] : k \in 1..Len(seq)}

NoDuplicates(seq) == Cardinality(Range(seq)) = Len(seq)

\* C12: for a two-fragment selector 'A > B', find_by_selector returns
\* exactly the elements that match B and whose parent matches A, each once:
\* the child is reported, not the parent, and an element matching B whose
\* own parent does not match A is not reported.
C12_DirectChild ==
    \A A \in GoodFragments, B \in GoodFragments :
        (call.op = "find_by_selector" /\ call.s \in {A \o <<">">> \o B, A \o <<" ", ">", " ">> \o B}) =>
            /\ Range(ret.val) = {j \in Elements : /\ data[j].role = B
                                                  /\ data[j].parent # 0
                                                  /\ data[data[j].parent].role = A}
            /\ NoDuplicates(ret.val)

\* C12 witness: 'a>b' reports a child of an a element and leaves out a b
\* element further down whose own parent is no a element.
C12_Witness ==
    /\ call.op = "find_by_selector" /\ call.s = <<"a", ">", "b">>
    /\ ret.val # <<>>
    /\ \E j \in Elements :
          /\ data[j].role = <<"b">> /\ data[j].parent # 0
          /\ data[data[j].parent].role # <<"a">>
          /\ \E i \in Elements : data[i].role = <<"a">> /\ j \in Descendants(i)
          /\ j \notin Range(ret.val)

\* C13: for a two-fragment selector 'A B', find_by_selector returns, in
\* pre-order, exactly the elements that match A and have a proper descendant
\* at any depth that matches B.
C13_Descendant ==
    \A A \in GoodFragments, B \in GoodFragments :
        (call.op = "find_by_selector" /\ call.s = A \o <<" ">> \o B) =>
            ret.val = InPreorder(LAMBDA i :
                          /\ data[i].role = A
                          /\ \E j \in Descendants(i) : data[j].role = B)

\* C13 witness: 'a b' reports two a elements, one of which has its only b
\* descendant further down than its children.
C13_Witness ==
    /\ call.op = "find_by_selector" /\ call.s = <<"a", " ", "b">>
    /\ Len(ret.val) = 2
    /\ \E i \in Range(ret.val) :
          \A k \in 1..Len(Children(i)) : data[Children(i)[k]].role # <<"b">>

(***************************************************************************)
(* find_by_name.                                                           *)
(***************************************************************************)
\* A search that takes a name of no characters for a name.
RECURSIVE NameSearchAnyName(_, _, _)
NameSearchAnyName(items, name, exact) ==
    IF items = <<>> THEN <<>>
    ELSE LET item == Head(items)
             hit  == /\ data[item].named
                     /\ IF exact THEN data[item].name = name
                        ELSE Contains(data[item].name, name)
         IN  (IF hit THEN <<item>> ELSE <<>>)
                \o NameSearchAnyName(Children(item), name, exact)
                \o NameSearchAnyName(Tail(items), name, exact)

\* search_recursive of find_by_name
RECURSIVE NameSearch(_, _, _)
NameSearch(items, name, exact) ==
    IF items = <<>> THEN <<>>
    ELSE LET item == Head(items)
             hit  == /\ NameTruthy(item)
                     /\ IF exact THEN data[item].name = name
                        ELSE Contains(data[item].name, name)
         IN  (IF hit THEN <<item>> ELSE <<>>)
                \o NameSearch(Children(item), name, exact)
                \o NameSearch(Tail(items), name, exact)

\* A find_by_name that builds the index whether or not it is asked to rank.
FindByNameEager(name, exact, use_bm25, has_top_k, top_k) ==
    <<IF use_bm25
      THEN RankedElements(build_bm25_index[1], build_bm25_index[2], name, has_top_k, top_k)
      ELSE NameSearch(Children(0), name, exact),
      build_bm25_index[1], build_bm25_index[2]>>

\* find_by_name: the triple of the value returned, self._bm25_index and
\* self._elements_with_names after the call.
find_by_name(name, exact, use_bm25, has_top_k, top_k) ==
    IF use_bm25
    THEN <<RankedElements(build_bm25_index[1], build_bm25_index[2], name, has_top_k, top_k),
           build_bm25_index[1], build_bm25_index[2]>>
    ELSE <<NameSearch(Children(0), name, exact), bm25_index, elements_with_names>>

FindByName(name, exact, use_bm25, has_top_k, top_k) ==
    /\ Idle
    /\ call' = [NoCall EXCEPT !.op = "find_by_name", !.s = name, !.exact = exact,
                              !.use_bm25 = use_bm25, !.has_top_k = has_top_k,
                              !.top_k = top_k]
    /\ ret' = Returned(find_by_name(name, exact, use_bm25, has_top_k, top_k)[1])
    /\ bm25_index' = find_by_name(name, exact, use_bm25, has_top_k, top_k)[2]
    /\ elements_with_names' = find_by_name(name, exact, use_bm25, has_top_k, top_k)[3]
    /\ UNCHANGED <<data, threads>>

(***************************************************************************)
(* Name search: elements without name, with the empty string as name, and  *)
(* with names that contain one another.                                    *)
(***************************************************************************)
NameLabels ==
    {Node(<<"a">>, <<"r">>, FALSE, <<>>),
     Node(<<"a">>, <<"r">>, TRUE, <<>>),
     Node(<<"a">>, <<"r">>, TRUE, <<"x">>),
     Node(<<"a">>, <<"r">>, TRUE, <<"x", "y">>),
     Node(<<"a">>, <<"r">>, TRUE, <<"X">>)}

NameQueries == {<<>>, <<"x">>, <<"y">>, <<"x", "y">>, <<"X">>}

InitName == Session(Trees(NameLabels, MaxNodes))

NextName ==
    \/ \E name \in NameQueries, exact \in BOOLEAN : FindByName(name, exact, FALSE, FALSE, 0)
    \/ Return

SpecName == InitName /\ [][NextName]_vars

PlainNameCall == call.op = "find_by_name" /\ ~call.use_bm25

\* C14 as stated: find_by_name(s, exact) returns, in pre-order and each once,
\* exactly the elements that have a name and whose name equals s (exact) or
\* contains s (not exact), for every s, the empty string included, and for
\* names that are the empty string.
C14_AsStated ==
    PlainNameCall =>
        ret.val = InPreorder(LAMBDA i :
                      /\ data[i].named
                      /\ IF call.exact THEN data[i].name = call.s
                         ELSE Contains(data[i].name, call.s))

\* C14, amended: find_by_name(s, exact) returns, in pre-order and each once,
\* exactly the elements whose name is a string of at least one character
\* that equals s (exact) or contains s (not exact); an element without a
\* name, or whose name is the empty string, is never returned.
C14_NonEmptyNames ==
    PlainNameCall =>
        /\ ret.val = InPreorder(LAMBDA i :
                         /\ data[i].named /\ data[i].name # <<>>
                         /\ IF call.exact THEN data[i].name = call.s
                            ELSE Contains(data[i].name, call.s))
        /\ \A k \in 1..Len(ret.val) : data[ret.val[k]].named /\ data[ret.val[k]].name # <<>>

\* C14 witness: the empty string is searched as a substring in a tree that
\* has an element with the empty string as name; the elements with longer
\* names are returned, that one is not.
C14_Witness ==
    /\ PlainNameCall /\ ~call.exact /\ call.s = <<>>
    /\ ret.val # <<>>
    /\ \E i \in Elements : data[i].named /\ data[i].name = <<>>

\* C15: every element find_by_name(s, exact=True) returns is also returned
\* by find_by_name(s, exact=False).
C15_ExactInSubstring ==
    (PlainNameCall /\ call.exact) =>
        \A k \in 1..Len(ret.val) :
            \E j \in 1..Len(find_by_name(call.s, FALSE, FALSE, FALSE, 0)[1]) :
                find_by_name(call.s, FALSE, FALSE, FALSE, 0)[1][j] = ret.val[k]

\* C15 witness: an exact search returns an element, and the substring search
\* for the same string returns more.
C15_Witness ==
    /\ PlainNameCall /\ call.exact
    /\ ret.val # <<>>
    /\ Len(find_by_name(call.s, FALSE, FALSE, FALSE, 0)[1]) > Len(ret.val)

\* C16: find_by_regex with a pattern that does not compile raises ValueError
\* for the pattern before any element is visited, for every tree and every
\* field, supported or not, and returns no partial result.
C16_InvalidPatternFails ==
    (call.op = "find_by_regex" /\ ~ReCompiles(call.s)) =>
        /\ ret.raised = "ValueError: invalid regular expression"
        /\ ret.val = <<>>

\* C16 witness: a pattern that does not compile, with a field the engine
\* does not know, on a tree that has elements.
C16_Witness ==
    /\ call.op = "find_by_regex" /\ call.s = <<"[">>
    /\ call.field \notin RegexFields
    /\ data # <<>>
    /\ ret.raised = "ValueError: invalid regular expression"

(***************************************************************************)
(* find_elements_with_text, find_interactive_elements, count_elements,     *)
(* extract_all_refs.                                                       *)
(***************************************************************************)
\* search_recursive of find_elements_with_text
RECURSIVE TextSearch(_, _, _)
TextSearch(items, text, case_sensitive) ==
    IF items = <<>> THEN <<>>
    ELSE LET item        == Head(items)
             search_text == IF case_sensitive THEN text ELSE LowerStr(text)
             item_text   == IF case_sensitive THEN data[item].name
                            ELSE LowerStr(data[item].name)
             hit         == NameTruthy(item) /\ Contains(item_text, search_text)
         IN  (IF hit THEN <<item>> ELSE <<>>)
                \o TextSearch(Children(item), text, case_sensitive)
                \o TextSearch(Tail(items), text, case_sensitive)

find_elements_with_text(text, case_sensitive) ==
    TextSearch(Children(0), text, case_sensitive)

interactive_roles ==
    <<<<"b", "u", "t", "t", "o", "n">>, <<"l", "i", "n", "k">>,
      <<"t", "e", "x", "t", "b", "o", "x">>, <<"c", "h", "e", "c", "k", "b", "o", "x">>,
      <<"r", "a", "d", "i", "o">>, <<"c", "o", "m", "b", "o", "b", "o", "x">>,
      <<"s", "l", "i", "d", "e", "r">>>>

\* results = {}
EmptyDict == [keys |-> <<>>, vals |-> <<>>]

\* results[key] = value: a new key goes after the keys the dict holds, a key
\* it holds keeps its place.
DictSet(d, key, value) ==
    [keys |-> IF key \in DOMAIN d.vals THEN d.keys ELSE Append(d.keys, key),
     vals |-> [k \in DOMAIN d.vals \cup {key} |-> IF k = key THEN value ELSE d.vals[k]]]

\* A loop that leaves out the roles no element has.
RECURSIVE InteractiveLoopNonEmpty(_, _)
InteractiveLoopNonEmpty(roles, results) ==
    IF roles = <<>> THEN results
    ELSE InteractiveLoopNonEmpty(Tail(roles),
             IF find_by_role(Head(roles)) = <<>> THEN results
             ELSE DictSet(results, Head(roles), find_by_role(Head(roles))))

\* for role in interactive_roles: results[role] = self.find_by_role(role)
RECURSIVE InteractiveLoop(_, _)
InteractiveLoop(roles, results) ==
    IF roles = <<>> THEN results
    ELSE InteractiveLoop(Tail(roles),
                         DictSet(results, Head(roles), find_by_role(Head(roles))))

find_interactive_elements == InteractiveLoop(interactive_roles, EmptyDict)

\* A count that leaves the children of an element out.
RECURSIVE CountTopLevel(_, _)
CountTopLevel(items, counts) ==
    IF items = <<>> THEN counts
    ELSE LET role == data[Head(items)].role
             n    == IF role \in DOMAIN counts THEN counts[role] ELSE 0
         IN  CountTopLevel(Tail(items),
                           [r \in DOMAIN counts \cup {role} |-> IF r = role THEN n + 1 ELSE counts[r]])

\* count_recursive: counts[role] = counts.get(role, 0) + 1, then the children
RECURSIVE CountRecursive(_, _)
CountRecursive(items, counts) ==
    IF items = <<>> THEN counts
    ELSE LET item   == Head(items)
             role   == data[item].role
             n      == IF role \in DOMAIN counts THEN counts[role] ELSE 0
             counts1 == [r \in DOMAIN counts \cup {role} |->
                            IF r = role THEN n + 1 ELSE counts[r]]
         IN  CountRecursive(Tail(items), CountRecursive(Children(item), counts1))

count_elements == CountRecursive(Children(0), <<>>)

RECURSIVE ExtractRecursive(_)
ExtractRecursive(items) ==
    IF items = <<>> THEN <<>>
    ELSE <<data[Head(items)].ref>>
            \o ExtractRecursive(Children(Head(items)))
            \o ExtractRecursive(Tail(items))

extract_all_refs == ExtractRecursive(Children(0))

FindElementsWithText(text, case_sensitive) ==
    /\ Idle
    /\ call' = [NoCall EXCEPT !.op = "find_elements_with_text", !.s = text,
                              !.case_sensitive = case_sensitive]
    /\ ret' = Returned(find_elements_with_text(text, case_sensitive))
    /\ UNCHANGED <<data, bm25_index, elements_with_names, threads>>

FindInteractiveElements ==
    /\ Idle
    /\ call' = Call1("find_interactive_elements", <<>>)
    /\ ret' = ReturnedOrderedDict(find_interactive_elements)
    /\ UNCHANGED <<data, bm25_index, elements_with_names, threads>>

CountElements ==
    /\ Idle
    /\ call' = Call1("count_elements", <<>>)
    /\ ret' = ReturnedDict(count_elements)
    /\ UNCHANGED <<data, bm25_index, elements_with_names, threads>>

ExtractAllRefs ==
    /\ Idle
    /\ call' = Call1("extract_all_refs", <<>>)
    /\ ret' = ReturnedStrings(extract_all_refs)
    /\ UNCHANGED <<data, bm25_index, elements_with_names, threads>>

(***************************************************************************)
(* A session in which every query operation is called, in any order, with  *)
(* arguments that succeed and arguments that fail.                         *)
(***************************************************************************)
SessionLabels ==
    {Node(<<"b", "u", "t", "t", "o", "n">>, <<"r">>, TRUE, <<"x">>),
     Node(<<"l", "i", "n", "k">>, <<"s">>, TRUE, <<"X", " ", "y">>),
     Node(<<"x">>, <<"r">>, FALSE, <<>>)}

SessionStrings == {<<"x">>, <<"y">>}

InitSession == Session(Trees(SessionLabels, MaxNodes))

NextSession ==
    \/ \E name \in SessionStrings, exact \in BOOLEAN : FindByName(name, exact, FALSE, FALSE, 0)
    \/ \E name \in SessionStrings : FindByName(name, FALSE, TRUE, FALSE, 0)
    \/ \E name \in SessionStrings : FindByNameBm25(name, FALSE, 0)
    \/ \E name \in SessionStrings : FindByNameBm25(name, TRUE, 1)
    \/ \E role \in {<<"x">>, <<"l", "i", "n", "k">>} : FindByRole(role)
    \/ \E ref \in {<<"r">>, <<"s">>} : FindByRef(ref)
    \/ \E text \in SessionStrings, case_sensitive \in BOOLEAN :
           FindElementsWithText(text, case_sensitive)
    \/ \E pattern \in {<<"x">>, <<"[">>}, field \in {NAME, <<"t", "a", "g">>} :
           FindByRegex(pattern, field, FALSE)
    \/ \E selector \in {<<"x">>, <<"#", "r">>, <<"[", "n", "a", "m", "e", "=", "x", "]">>} :
           FindBySelector(selector)
    \/ FindInteractiveElements
    \/ CountElements
    \/ \E ref \in {<<"s">>, <<"t">>} : GetElementPath(ref)
    \/ ExtractAllRefs
    \/ Return

SpecSession == InitSession /\ [][NextSession]_vars

\* The index and the list of indexed elements a first ranked query leaves.
FreshElements == CollectElements(Children(0))

FreshIndex == build(AddDocuments(NewIndex, FreshElements))

\* What call c gives back when it is the first call of a session on the tree.
FreshResult(c) ==
    CASE c.op = "find_by_name" ->
             Returned(IF c.use_bm25
                      THEN RankedElements(FreshIndex, FreshElements, c.s, c.has_top_k, c.top_k)
                      ELSE NameSearch(Children(0), c.s, c.exact))
      [] c.op = "find_by_name_bm25" ->
             Returned(RankedElements(FreshIndex, FreshElements, c.s, c.has_top_k, c.top_k))
      [] c.op = "find_by_role" -> Returned(find_by_role(c.s))
      [] c.op = "find_by_ref" -> ReturnedElement(find_by_ref(c.s))
      [] c.op = "find_elements_with_text" ->
             Returned(find_elements_with_text(c.s, c.case_sensitive))
      [] c.op = "find_by_regex" -> find_by_regex(c.s, c.field, c.case_sensitive)
      [] c.op = "find_by_selector" -> Returned(find_by_selector(c.s))
      [] c.op = "find_interactive_elements" -> ReturnedOrderedDict(find_interactive_elements)
      [] c.op = "count_elements" -> ReturnedDict(count_elements)
      [] c.op = "get_element_path" -> Returned(get_element_path(c.s))
      [] c.op = "extract_all_refs" -> ReturnedStrings(extract_all_refs)
      [] OTHER -> NoRet

\* C17: every query operation, whether it returns or fails with a
\* query-argument error, leaves the role, ref, name, children and child order
\* of every element unchanged, and after any sequence of such calls each
\* query returns what it returns on a freshly loaded session.
C17_Frame ==
    /\ [][data' = data]_vars
    /\ [](~Idle => ret = FreshResult(call))

\* C17 witness: a call that fails with a query-argument error, made after a
\* ranked query has built the index.
C17_Witness ==
    /\ call.op = "find_by_regex" /\ ret.raised # "none"
    /\ bm25_index.exists
    /\ Len(elements_with_names) >= 2

\* A ranked query: find_by_name_bm25, or find_by_name with use_bm25=True.
RankedCall(c) == c.op = "find_by_name_bm25" \/ (c.op = "find_by_name" /\ c.use_bm25)

\* C18: the BM25 index does not exist until the first ranked query, which
\* builds it; no other query operation builds it; once built, no operation
\* changes the index or its list of indexed elements, and a ranked query
\* returns the list the index as it stands gives, so that repeating it
\* returns the same list.
C18_IndexLifecycle ==
    /\ ~bm25_index.exists
    /\ [][/\ ~RankedCall(call') =>
                 bm25_index' = bm25_index /\ elements_with_names' = elements_with_names
          /\ RankedCall(call') => bm25_index'.exists
          /\ bm25_index.exists =>
                 bm25_index' = bm25_index /\ elements_with_names' = elements_with_names]_vars
    /\ [](RankedCall(call) =>
             ret.val = RankedElements(bm25_index, elements_with_names,
                                      call.s, call.has_top_k, call.top_k))

\* C18 witness: a query that does not rank is answered in a session whose
\* index a ranked query has built from two names or more.
C18_Witness ==
    /\ call.op = "count_elements"
    /\ bm25_index.exists /\ bm25_index.built
    /\ Len(bm25_index.documents) >= 2

(***************************************************************************)
(* A BM25Index used on its own: documents are added, the index is built,   *)
(* scored and searched.  bm25_index holds the BM25Index object.            *)
(***************************************************************************)
MaxDocs == 3

AddDocument(text) ==
    /\ Idle
    /\ Len(bm25_index.documents) < MaxDocs
    /\ call' = Call1("add_document", text)
    /\ bm25_index' = add_document(bm25_index, text)
    /\ ret' = NoRet
    /\ UNCHANGED <<data, elements_with_names, threads>>

Build ==
    /\ Idle
    /\ call' = Call1("build", <<>>)
    /\ bm25_index' = build(bm25_index)
    /\ ret' = NoRet
    /\ UNCHANGED <<data, elements_with_names, threads>>

\* score builds the index if it is not built.
Score(query, doc_idx) ==
    /\ Idle
    /\ call' = [NoCall EXCEPT !.op = "score", !.s = query, !.doc_idx = doc_idx]
    /\ bm25_index' = build(bm25_index)
    /\ ret' = IF ScoreIndexError(bm25_index, doc_idx) THEN Raised("IndexError")
              ELSE IF ScoreRaises(bm25_index, query, doc_idx) THEN Raised("ZeroDivisionError")
              ELSE ReturnedNumber(score(bm25_index, query, doc_idx))
    /\ UNCHANGED <<data, elements_with_names, threads>>

Search(query, has_top_k, top_k) ==
    /\ Idle
    /\ call' = [NoCall EXCEPT !.op = "search", !.s = query, !.has_top_k = has_top_k,
                              !.top_k = top_k]
    /\ bm25_index' = build(bm25_index)
    /\ ret' = IF \E i \in 1..Len(bm25_index.documents) : ScoreRaises(bm25_index, query, i)
              THEN Raised("ZeroDivisionError")
              ELSE Returned(search(bm25_index, query, has_top_k, top_k))
    /\ UNCHANGED <<data, elements_with_names, threads>>

\* Documents with and without terms, and one with a term twice; queries with
\* a term of the documents, a term twice, a term of none, and no term.
IndexTexts == {<<>>, <<"-">>, <<"x">>, <<"x", " ", "y">>, <<"x", " ", "X">>}

IndexQueries == {<<"x">>, <<"b">>, <<"b", " ", "y">>, <<"-">>, <<"x", " ", "x">>}

InitIndex ==
    /\ data = <<>>
    /\ bm25_index = NewIndex
    /\ elements_with_names = <<>>
    /\ threads = <<>>
    /\ call = NoCall
    /\ ret = NoRet

NextIndex ==
    \/ \E text \in IndexTexts : AddDocument(text)
    \/ Build
    \/ \E query \in IndexQueries, doc_idx \in 1..(MaxDocs + 1) : Score(query, doc_idx)
    \/ \E query \in IndexQueries : Search(query, FALSE, 0)
    \/ \E query \in IndexQueries : Search(query, TRUE, 1)
    \/ Return

SpecIndex == InitIndex /\ [][NextIndex]_vars

\* The corpus is empty, or every document of it has no term.
Degenerate ==
    \A i \in 1..Len(bm25_index.documents) : DOMAIN bm25_index.doc_freqs[i] = {}

\* No document holds the term.
Unseen(term) ==
    \A i \in 1..Len(bm25_index.documents) : term \notin DOMAIN bm25_index.doc_freqs[i]

\* C19: BM25 operations never fail on degenerate input: for an empty corpus,
\* or one whose every document has no term, build succeeds with average
\* document length 0, score returns 0 for every query and document and
\* search returns the empty list; a query of terms that occur in no document
\* scores 0; and no call fails, so no division by an average length of 0 is
\* evaluated.
C19_Degenerate ==
    /\ call.op \in {"build", "score", "search"} =>
          /\ ret.raised = "none"
          /\ bm25_index.built
          /\ Degenerate => bm25_index.avg_doc_len.num = 0
    /\ (call.op = "score" /\ Degenerate) => ret.num = 0
    /\ (call.op = "search" /\ Degenerate) => ret.val = <<>>
    /\ (call.op = "score" /\ \A k \in 1..Len(tokenize(call.s)) : Unseen(tokenize(call.s)[k])) =>
          ret.num = 0

\* C19 witness: a document of a corpus of two documents without term is
\* scored for a query that has a term.
C19_Witness ==
    /\ call.op = "score" /\ tokenize(call.s) # <<>>
    /\ Len(bm25_index.documents) = 2 /\ Degenerate
    /\ call.doc_idx \in 1..2
    /\ ret.num = 0

\* C20: the values of count_elements() sum to the number of elements of the
\* tree, which is also the length of extract_all_refs(): one ref for each
\* element, in pre-order, refs that repeat included; no element is counted
\* twice or skipped.
C20_CountsAndRefs ==
    /\ call.op = "count_elements" =>
          /\ SumOver(ret.dict, DOMAIN ret.dict) = Len(data)
          /\ Len(extract_all_refs) = Len(data)
          /\ DOMAIN ret.dict = {data[i].role : i \in Elements}
          /\ \A role \in DOMAIN ret.dict :
                ret.dict[role] = Cardinality({i \in Elements : data[i].role = role})
    /\ call.op = "extract_all_refs" =>
          /\ ret.strs = [i \in 1..Len(data) |-> data[i].ref]
          /\ Len(ret.strs) = SumOver(count_elements, DOMAIN count_elements)

\* C20 witness: the elements of a tree of three elements on two levels or
\* more, two of them of one role, are counted.
C20_Witness ==
    /\ call.op = "count_elements"
    /\ Len(data) = 3
    /\ \E i \in Elements : data[i].parent # 0
    /\ \E role \in DOMAIN ret.dict : ret.dict[role] = 2

(***************************************************************************)
(* C21: the interactive-elements view.                                     *)
(***************************************************************************)
\* The seven roles of the view, in the order the claim lists them.
SevenRoles ==
    <<<<"b", "u", "t", "t", "o", "n">>, <<"l", "i", "n", "k">>,
      <<"t", "e", "x", "t", "b", "o", "x">>, <<"c", "h", "e", "c", "k", "b", "o", "x">>,
      <<"r", "a", "d", "i", "o">>, <<"c", "o", "m", "b", "o", "b", "o", "x">>,
      <<"s", "l", "i", "d", "e", "r">>>>

\* C21: find_interactive_elements() returns a mapping with exactly the seven
\* keys button, link, textbox, checkbox, radio, combobox, slider, in that
\* order, each mapped to the result of find_by_role for that role (the
\* elements of that role in pre-order); a role no element has is a key with
\* an empty list.
C21_InteractiveView ==
    call.op = "find_interactive_elements" =>
        /\ ret.raised = "none"
        /\ ret.keys = SevenRoles
        /\ DOMAIN ret.dict = Range(SevenRoles)
        /\ \A role \in Range(SevenRoles) :
              /\ ret.dict[role] = find_by_role(role)
              /\ ret.dict[role] = InPreorder(LAMBDA j : data[j].role = role)

\* C21 witness: the view of a tree with two buttons and no link.
C21_Witness ==
    /\ call.op = "find_interactive_elements"
    /\ Len(ret.dict[<<"b", "u", "t", "t", "o", "n">>]) = 2
    /\ ret.dict[<<"l", "i", "n", "k">>] = <<>>
    /\ Len(data) = 3

(***************************************************************************)
(* C22: the formulas of the index, written from the documents.             *)
(***************************************************************************)
\* The terms of document i and the number of times term t occurs in it.
TermsOfDocument(i) == tokenize(bm25_index.documents[i])

Occurrences(t, i) ==
    Cardinality({k \in 1..Len(TermsOfDocument(i)) : TermsOfDocument(i)[k] = t})

\* n_t: the number of indexed names that contain term t.
NamesContaining(t) ==
    Cardinality({i \in 1..Len(bm25_index.documents) : Occurrences(t, i) > 0})

\* ln((N - n_t + 0.5) / (n_t + 0.5) + 1), both halves doubled, in units of
\* 1/Scale.
ClaimedIdf(N, n_t) == Log((2 * N - 2 * n_t + 1) + (2 * n_t + 1), 2 * n_t + 1)

\* The sum of the lengths of the documents; avgdl is this sum over N.
RECURSIVE SumOfLengths(_)
SumOfLengths(i) == IF i = 0 THEN 0 ELSE Len(TermsOfDocument(i)) + SumOfLengths(i - 1)

\* idf(t) * tf * (k1 + 1) / (tf + k1 * (1 - b + b * (|d| / avgdl))) with
\* k1 = 1.5, b = 0.75 and avgdl = T / N: numerator and denominator times
\* 8 * T.
ClaimedTermScore(t, i) ==
    LET N  == Len(bm25_index.documents)
        T  == SumOfLengths(N)
        tf == Occurrences(t, i)
    IN  (ClaimedIdf(N, NamesContaining(t)) * tf * 20 * T)
            \div (8 * tf * T + 3 * T + 9 * Len(TermsOfDocument(i)) * N)

\* The sum over the terms of the query, from the k-th on, that document i
\* holds.
RECURSIVE ClaimedScore(_, _, _)
ClaimedScore(query_terms, k, i) ==
    IF k > Len(query_terms) THEN 0
    ELSE (IF Occurrences(query_terms[k], i) > 0 THEN ClaimedTermScore(query_terms[k], i) ELSE 0)
            + ClaimedScore(query_terms, k + 1, i)

\* C22: the index computes the IDF of each indexed term as
\* ln((N - n_t + 0.5) / (n_t + 0.5) + 1), N the number of indexed names and
\* n_t the number of names that contain the term, and the score of a query
\* against a document as the sum, over the query terms present in the IDF
\* table and in the document, of
\* idf(t) * tf * (k1+1) / (tf + k1*(1 - b + b*(|d|/avgdl))), k1 = 1.5,
\* b = 0.75.
C22_Formulas ==
    /\ (bm25_index.built /\ bm25_index.documents # <<>>) =>
          /\ DOMAIN bm25_index.idf =
                UNION {Range(TermsOfDocument(i)) : i \in 1..Len(bm25_index.documents)}
          /\ \A t \in DOMAIN bm25_index.idf :
                bm25_index.idf[t] = ClaimedIdf(Len(bm25_index.documents), NamesContaining(t))
          /\ bm25_index.avg_doc_len.num * Len(bm25_index.documents)
                = SumOfLengths(Len(bm25_index.documents)) * bm25_index.avg_doc_len.den
    /\ (call.op = "score" /\ call.doc_idx \in 1..Len(bm25_index.documents)) =>
          /\ ret.raised = "none"
          /\ ret.num = ClaimedScore(tokenize(call.s), 1, call.doc_idx)

\* C22 witness: a query that repeats a term is scored against a document
\* that holds the term twice, in a corpus of three documents of which one
\* is without the term.
C22_Witness ==
    /\ call.op = "score" /\ call.s = <<"x", " ", "x">>
    /\ Len(bm25_index.documents) = 3
    /\ call.doc_idx \in 1..3
    /\ Occurrences(<<"x">>, call.doc_idx) = 2
    /\ NamesContaining(<<"x">>) = 2
    /\ ret.num > 0

(***************************************************************************)
(* C23: the order of the elements find_by_selector returns, on trees deep  *)
(* and wide enough for an element to have a grandchild and a later child.  *)
(***************************************************************************)
MaxOrderNodes == 4

OrderLabels == {Node(<<"a">>, <<"r">>, FALSE, <<>>), Node(<<"b">>, <<"r">>, FALSE, <<>>)}

OrderSelectors ==
    {<<"a">>, <<"a", " ", "b">>, <<"a", " ", "a">>, <<"a", ">", "a">>, <<"a", ">", "b">>,
     <<"b", " ", ">", " ", "a">>, <<"a", ">", "a", ">", "a">>, <<"a", ">", "b", " ", "a">>}

InitOrder == Session(Trees(OrderLabels, MaxOrderNodes))

NextOrder ==
    \/ \E selector \in OrderSelectors : FindBySelector(selector)
    \/ Return

SpecOrder == InitOrder /\ [][NextOrder]_vars

\* C23: for every selector and every tree, the elements find_by_selector
\* returns are listed in strictly increasing document pre-order position, so
\* no element appears twice; this includes the selectors whose first
\* combinator is '>', which report the matched children.
C23_PreorderResults ==
    call.op = "find_by_selector" =>
        \A k \in 1..(Len(ret.val) - 1) : ret.val[k] < ret.val[k + 1]

(***************************************************************************)
(* Two threads that each make one ranked query on the same session, with   *)
(* no lock in find_by_name_bm25 or _build_bm25_index: a thread may be      *)
(* suspended between any two statements that read or write self.  threads  *)
(* holds, for each thread, its position (pc), the query, the named         *)
(* elements collect_elements has yet to visit (todo), the list search gave *)
(* (results), and what the call returned (val) or raised.  One call of     *)
(* add_document, build or search is one step.                              *)
(***************************************************************************)
Threads == {1, 2}

NoThread ==
    [pc |-> "idle", s |-> <<>>, todo |-> <<>>, results |-> <<>>, val |-> <<>>,
     raised |-> "none"]

At(t, pc) == threads[t].pc = pc

\* find_by_name_bm25(name) is called, top_k left at None.
ThreadCall(t, name) ==
    /\ At(t, "idle")
    /\ threads' = [threads EXCEPT ![t] = [@ EXCEPT !.pc = "check", !.s = name]]
    /\ UNCHANGED <<data, bm25_index, elements_with_names, call, ret>>

\* if self._bm25_index is not None: return
ThreadCheck(t) ==
    /\ At(t, "check")
    /\ threads' = [threads EXCEPT ![t].pc = IF bm25_index.exists THEN "empty_check" ELSE "create"]
    /\ UNCHANGED <<data, bm25_index, elements_with_names, call, ret>>

\* self._bm25_index = BM25Index()
ThreadCreate(t) ==
    /\ At(t, "create")
    /\ bm25_index' = NewIndex
    /\ threads' = [threads EXCEPT ![t].pc = "reset"]
    /\ UNCHANGED <<data, elements_with_names, call, ret>>

\* self._elements_with_names = []; collect_elements(self.data) starts
ThreadReset(t) ==
    /\ At(t, "reset")
    /\ elements_with_names' = <<>>
    /\ LET todo == CollectElements(Children(0))
       IN  threads' = [threads EXCEPT ![t] = [@ EXCEPT !.todo = todo,
                           !.pc = IF todo = <<>> THEN "build" ELSE "append"]]
    /\ UNCHANGED <<data, bm25_index, call, ret>>

\* self._elements_with_names.append(item)
ThreadAppend(t) ==
    /\ At(t, "append")
    /\ elements_with_names' = Append(elements_with_names, Head(threads[t].todo))
    /\ threads' = [threads EXCEPT ![t].pc = "add"]
    /\ UNCHANGED <<data, bm25_index, call, ret>>

\* self._bm25_index.add_document(item.name), then the next named element
ThreadAddDocument(t) ==
    /\ At(t, "add")
    /\ bm25_index' = add_document(bm25_index, data[Head(threads[t].todo)].name)
    /\ threads' = [threads EXCEPT ![t] = [@ EXCEPT !.todo = Tail(@),
                       !.pc = IF Tail(threads[t].todo) = <<>> THEN "build" ELSE "append"]]
    /\ UNCHANGED <<data, elements_with_names, call, ret>>

\* self._bm25_index.build()
ThreadBuild(t) ==
    /\ At(t, "build")
    /\ bm25_index' = build(bm25_index)
    /\ threads' = [threads EXCEPT ![t].pc = "empty_check"]
    /\ UNCHANGED <<data, elements_with_names, call, ret>>

\* if not self._elements_with_names: return []
ThreadEmptyCheck(t) ==
    /\ At(t, "empty_check")
    /\ threads' = [threads EXCEPT ![t].pc = IF elements_with_names = <<>> THEN "done" ELSE "search"]
    /\ UNCHANGED <<data, bm25_index, elements_with_names, call, ret>>

\* results = self._bm25_index.search(name, top_k=top_k)
ThreadSearch(t) ==
    /\ At(t, "search")
    /\ bm25_index' = build(bm25_index)
    /\ threads' = [threads EXCEPT ![t] =
           IF \E i \in 1..Len(bm25_index.documents) : ScoreRaises(bm25_index, threads[t].s, i)
           THEN [@ EXCEPT !.pc = "done", !.raised = "ZeroDivisionError"]
           ELSE [@ EXCEPT !.pc = "map",
                          !.results = search(bm25_index, threads[t].s, FALSE, 0)]]
    /\ UNCHANGED <<data, elements_with_names, call, ret>>

\* return [self._elements_with_names[idx] for idx, _ in results]
ThreadMap(t) ==
    /\ At(t, "map")
    /\ LET results == threads[t].results
       IN  threads' = [threads EXCEPT ![t] =
               IF \A k \in 1..Len(results) : results[k].idx <= Len(elements_with_names)
               THEN [@ EXCEPT !.pc = "done",
                              !.val = [k \in 1..Len(results) |->
                                          elements_with_names[results[k].idx]]]
               ELSE [@ EXCEPT !.pc = "done", !.raised = "IndexError"]]
    /\ UNCHANGED <<data, bm25_index, elements_with_names, call, ret>>

MaxThreadNodes == 2

ThreadLabels ==
    {Node(<<"x">>, <<"r">>, TRUE, <<"x">>), Node(<<"x">>, <<"r">>, TRUE, <<"x", " ", "y">>)}

ThreadQueries == {<<"x">>}

InitThreads ==
    /\ data \in Trees(ThreadLabels, MaxThreadNodes)
    /\ bm25_index = NoIndex
    /\ elements_with_names = <<>>
    /\ threads = [t \in Threads |-> NoThread]
    /\ call = NoCall
    /\ ret = NoRet

NextThreads ==
    \E t \in Threads :
        \/ \E name \in ThreadQueries : ThreadCall(t, name)
        \/ ThreadCheck(t)
        \/ ThreadCreate(t)
        \/ ThreadReset(t)
        \/ ThreadAppend(t)
        \/ ThreadAddDocument(t)
        \/ ThreadBuild(t)
        \/ ThreadEmptyCheck(t)
        \/ ThreadSearch(t)
        \/ ThreadMap(t)

SpecThreads == InitThreads /\ [][NextThreads]_vars

\* C24: when two threads issue their first ranked query concurrently on the
\* same session, the first build of the index is one build-then-cache
\* transition: no thread finds an index object that exists but does not yet
\* hold every name or is not built, and both calls return the list a
\* sequential call returns.
C24_SingleBuild ==
    /\ [][\A t \in Threads :
             (At(t, "check") /\ threads'[t].pc = "empty_check") =>
                 /\ bm25_index = FreshIndex
                 /\ elements_with_names = FreshElements]_vars
    /\ [](\A t \in Threads :
             At(t, "done") =>
                 /\ threads[t].raised = "none"
                 /\ threads[t].val =
                        RankedElements(FreshIndex, FreshElements, threads[t].s, FALSE, 0))

(***************************************************************************)
(* C25: score asked about any integer doc_idx, below the first document    *)
(* and above the last.                                                     *)
(***************************************************************************)
ScoreTexts == {<<>>, <<"x">>, <<"x", " ", "y">>}

ScoreQueries == {<<"x">>, <<"y">>}

\* doc_idx counts from 1: Python's -MaxDocs - 1 .. MaxDocs.
NextScore ==
    \/ \E text \in ScoreTexts : AddDocument(text)
    \/ Build
    \/ \E query \in ScoreQueries, doc_idx \in (0 - MaxDocs)..(MaxDocs + 1) : Score(query, doc_idx)
    \/ Return

SpecScore == InitIndex /\ [][NextScore]_vars

\* C25: score(query, doc_idx) returns 0.0, without raising, for every
\* doc_idx that is not the index of an indexed document, that is for every
\* integer outside 0 .. (number of documents - 1).
C25_InvalidDocIdx ==
    (call.op = "score" /\ call.doc_idx \notin 1..Len(bm25_index.documents)) =>
        /\ ret.raised = "none"
        /\ ret.num = 0

\* C26: for a BM25Index driven by any sequence of add_document, build, score
\* and search calls, whenever a score or search result is computed the IDF
\* table and the average document length in use are those of the full
\* current document list (an add_document after a build invalidates the
\* index and the next score or search rebuilds it first), and build() on an
\* index that is built changes no field.
C26_IndexCurrent ==
    /\ [][call'.op = "add_document" => ~bm25_index'.built]_vars
    /\ [][(call'.op = "build" /\ bm25_index.built) => bm25_index' = bm25_index]_vars
    /\ []((call.op \in {"score", "search"} /\ ret.raised = "none") =>
            LET N == Len(bm25_index.documents)
            IN  /\ bm25_index.built
                /\ bm25_index.idf =
                      [t \in UNION {Range(TermsOfDocument(i)) : i \in 1..N} |->
                          ClaimedIdf(N, NamesContaining(t))]
                /\ bm25_index.avg_doc_len.num * N = SumOfLengths(N) * bm25_index.avg_doc_len.den
                /\ (call.op = "score" /\ call.doc_idx \in 1..N) =>
                      ret.num = ClaimedScore(tokenize(call.s), 1, call.doc_idx)
                /\ call.op = "search" =>
                      \A k \in 1..Len(ret.val) :
                          ret.val[k].score = ClaimedScore(tokenize(call.s), 1, ret.val[k].idx))

\* C26 witness: a document with a new term has been added to an index that
\* was built, which holds the IDF table of the documents before it and is
\* marked as not built.
C26_Witness ==
    /\ call.op = "add_document"
    /\ ~bm25_index.built
    /\ bm25_index.idf # <<>>
    /\ \E t \in Range(TermsOfDocument(Len(bm25_index.documents))) : t \notin DOMAIN bm25_index.idf

\* C27: once the session's index is built, the indexed documents are the
\* names of the elements that have a non-empty name, in document pre-order
\* of the tree, and position i of the document list is position i of the
\* element list (documents[i] is the name of _elements_with_names[i]); so
\* every document index search returns maps to the element whose name was
\* scored.
C27_IndexAligned ==
    bm25_index.exists =>
        /\ bm25_index.built
        /\ elements_with_names = InPreorder(LAMBDA j : data[j].named /\ data[j].name # <<>>)
        /\ Len(bm25_index.documents) = Len(elements_with_names)
        /\ \A i \in 1..Len(elements_with_names) :
              bm25_index.documents[i] = data[elements_with_names[i]].name
        /\ RankedCall(call) =>
              LET results == search(bm25_index, call.s, call.has_top_k, call.top_k)
              IN  /\ Len(ret.val) = Len(results)
                  /\ \A k \in 1..Len(results) :
                        /\ ret.val[k] = elements_with_names[results[k].idx]
                        /\ data[ret.val[k]].name = bm25_index.documents[results[k].idx]

\* C27 witness: a ranked query returns the third element of a tree whose
\* first element has the empty name, so that the element's position in the
\* tree and its document's position in the index differ.
C27_Witness ==
    /\ RankedCall(call)
    /\ Len(data) = 3
    /\ data[1].named /\ data[1].name = <<>>
    /\ Len(bm25_index.documents) = 2
    /\ 3 \in Range(ret.val)

\* The score of document i for the query of the call.
DocumentScore(i) == score(bm25_index, call.s, i)

\* C28: search lists documents of equal score in increasing document-index
\* order, the order in which they were indexed, both when top_k is absent
\* and when a group of documents of equal score straddles the top_k cut-off,
\* in which case the lower-indexed ones are kept.
C28_StableTies ==
    (call.op = "search" /\ ret.raised = "none") =>
        /\ \A j \in 1..Len(ret.val), k \in 1..Len(ret.val) :
              (j < k /\ ret.val[j].score = ret.val[k].score) => ret.val[j].idx < ret.val[k].idx
        /\ \A k \in 1..Len(ret.val) :
              /\ ret.val[k].idx \in 1..Len(bm25_index.documents)
              /\ ret.val[k].score = DocumentScore(ret.val[k].idx)
        /\ \A k \in 1..Len(ret.val), i \in 1..Len(bm25_index.documents) :
              (DocumentScore(i) = ret.val[k].score /\ i < ret.val[k].idx) =>
                  \E j \in 1..Len(ret.val) : ret.val[j].idx = i

\* C28 witness: a search with top_k = 1 over three documents of which two
\* or more have the same positive score keeps the first of them.
C28_Witness ==
    /\ call.op = "search" /\ call.has_top_k /\ call.top_k = 1
    /\ Len(bm25_index.documents) = 3
    /\ Len(ret.val) = 1
    /\ \E i \in 1..3 : i > ret.val[1].idx /\ DocumentScore(i) = ret.val[1].score
    /\ \E i \in 1..3 : DocumentScore(i) # ret.val[1].score

(***************************************************************************)
(* C29: find_by_regex and the elements without a name.                     *)
(***************************************************************************)
\* The text find_by_regex is claimed to test for an element and a field: a
\* missing name counts as the empty string.
TestedText(j, field) ==
    IF field = NAME THEN (IF data[j].named THEN data[j].name ELSE <<>>)
    ELSE IF field = ROLE THEN data[j].role
    ELSE data[j].ref

RegexCall == call.op = "find_by_regex" /\ ReCompiles(call.s) /\ call.field \in {NAME, ROLE, REF}

\* C29 as stated: find_by_regex with field='name' tests every element, a
\* missing name as the empty string, so a pattern that matches the empty
\* string returns every element of the tree in pre-order.
C29_AsStated ==
    (RegexCall /\ call.field = NAME /\ ReSearch(call.s, call.case_sensitive, <<>>)) =>
        ret.val = [j \in 1..Len(data) |-> j]

\* C29 amended: find_by_regex returns, in pre-order, the elements whose
\* tested text the pattern matches somewhere, the tested text being the
\* role, the ref, or the name with a missing name taken as the empty
\* string; so a pattern that matches the empty string returns every element
\* whose name is missing or empty, whatever else it returns.
C29_MissingNameIsEmpty ==
    RegexCall =>
        /\ ret.raised = "none"
        /\ ret.val = InPreorder(LAMBDA j :
                         ReSearch(call.s, call.case_sensitive, TestedText(j, call.field)))
        /\ (call.field = NAME /\ ReSearch(call.s, call.case_sensitive, <<>>)) =>
              \A j \in Elements :
                  (~data[j].named \/ data[j].name = <<>>) => j \in Range(ret.val)

\* C29 witness: '^$' on the names of a tree returns an element without a
\* name and leaves out an element that has one.
C29_Witness ==
    /\ RegexCall /\ call.field = NAME /\ call.s = <<"^", "$">>
    /\ \E j \in Range(ret.val) : ~data[j].named
    /\ \E j \in Elements : data[j].named /\ j \notin Range(ret.val)

\* The element has a non-empty name that shares a token with query q.
SharesToken(j, q) ==
    /\ data[j].named /\ data[j].name # <<>>
    /\ Range(tokenize(data[j].name)) \cap Range(tokenize(q)) # {}

\* C30: with top_k absent, find_by_name_bm25(q) returns exactly the elements
\* that have a non-empty name sharing at least one token, under the
\* tokenizer and so without regard to case, with q: every indexed term has
\* an IDF strictly above zero, so each such element scores strictly above
\* zero and is returned, once, and every element that shares no token with q
\* is left out.
C30_AllSharingElements ==
    (RankedCall(call) /\ ~call.has_top_k) =>
        /\ ret.raised = "none"
        /\ \A t \in DOMAIN bm25_index.idf : bm25_index.idf[t] > 0
        /\ \A j \in Elements : SharesToken(j, call.s) => ScoreOf(j) > 0
        /\ Range(ret.val) = {j \in Elements : SharesToken(j, call.s)}
        /\ NoDuplicates(ret.val)

\* C30 witness: the query 'x' returns two elements of a tree whose third
\* element has a name without the token x.
C30_Witness ==
    /\ RankedCall(call) /\ ~call.has_top_k
    /\ call.s = <<"x">>
    /\ Len(ret.val) = 2
    /\ \E j \in Elements : data[j].name = <<"Y", "-", "y">>

=============================================================================
